---- MODULE Spec2Model ----
(***************************************************************************)
(* repo2prompt (src/src/index.ts): the file-selection and bounded-        *)
(* streaming serialisation pipeline.                                       *)
(*                                                                         *)
(*   Spec         main's assembly phase: preamble, table of contents,      *)
(*                writeFilesWithIndex with streamFileWithLimit driven by   *)
(*                the read stream's data / end / error events, --END--.    *)
(*   SpecResolve  main's file-set resolution: getIgnoreList, the split     *)
(*                into exclude / re-include patterns, the two glob passes, *)
(*                the merge and the final strip.                           *)
(*   SpecBinary   isBinaryFile applied to one file.                        *)
(***************************************************************************)
EXTENDS Integers, Sequences, FiniteSets, TLC

VARIABLES
    \* ---- assembly (main 538-555, writeFilesWithIndex, streamFileWithLimit)
    files,          \* the resolved list with what the disk holds: <<[path, bytes]>>
    maxSize,        \* the per-file ceiling
    hasBar,         \* bar !== null
    pc,             \* "toc" | "loop" | "stream" | "end" | "done"
    idx,            \* writeFilesWithIndex's loop variable (0-based)
    sink,           \* every unit written to outputStream, in order
    pos,            \* raw bytes the read stream has delivered so far
    pending,        \* bytes the utf-8 decoder holds back (an incomplete sequence)
    bytesWritten,   \* streamFileWithLimit's counter
    truncated,      \* streamFileWithLimit's flag
    rsLive,         \* the read stream can still emit events
    promise,        \* "none" | "pending" | "resolved" | "rejected"
    barIncs,        \* calls of bar.increment()
    barStops,       \* calls of bar.stop()
    \* ---- history (not read by the program)
    wrote,          \* wrote[i]: the units written while entry i was processed
    streamOut,      \* the units streamFileWithLimit wrote for the current entry
    outcome,        \* outcome[i]: "pending" | "statFailed" | "readFailed" | "written"
    \* ---- file-set resolution (main 380-465)
    tree,           \* the regular files under repoRoot, as repository-relative paths
    ignoreText,     \* the lines of the ignore file
    ignoreFileName, \* the three configured names, as written by the user
    outputFileName,
    preambleFile,
    rpc,            \* "start" | "glob" | "reinclude" | "resolved" | "exit" |
                    \* "globExit" | "idle"
    ignorePatterns, \* getIgnoreList's result
    allFiles,       \* the first glob pass
    reIncluded,     \* what the re-include patterns matched so far
    negIdx,         \* position in negativePatterns (1-based)
    nonIgnoredFiles,\* the resolved list
    \* ---- isBinaryFile on one file
    binFile,        \* the file and whether fsp.open / fd.read succeed on it
    binResult,      \* "none" | "true" | "false"
    binOpened,      \* handles opened by the call
    binClosed,      \* handles closed by the call
    \* ---- getIgnoreList on a text, and main's split of its result
    loadText,       \* the characters of the ignore file
    osPlatform,     \* os.platform(): "linux" | "win32"
    lpc,            \* "start" | "loaded" | "threw" | "idle"
    loadPatterns,   \* getIgnoreList's result
    loadPositive,   \* main's positivePatterns
    loadNegative,   \* main's negativePatterns
    \* ---- the process
    exitCode,       \* "running" | "0" | "1"
    stderr,         \* the messages written to stderr, in order
    \* ---- loadConfig on one set of sources
    cfgSources,     \* what --config, .repo2prompt.json and package.json hold
    cfgResult,      \* what loadConfig did, once it has run
    \* ---- main around the resolution and the assembly
    repoPathInput,  \* program.args[0], relative to the working directory
    mpc,            \* "repo" | "config" | "names" | "resolve" | "open" |
                    \* "assemble" | "finished" | "ended" | "exit" | "crashed" | "idle"
    configFromFile, \* loadConfig's result
    showProgress,   \* main's showProgress
    outputPath,     \* the path handed to fs.createWriteStream
    outState,       \* the write stream's file: "none" | "opening" | "open" | "failed"
    outFile,        \* the file at outputPath: touched by this run or not, and
                    \* the units this run has put in it
    stdout          \* the messages written to stdout, in order

asmVars == <<files, maxSize, hasBar, pc, idx, sink, pos, pending, bytesWritten,
             truncated, rsLive, promise, barIncs, barStops, wrote, streamOut,
             outcome>>

resVars == <<tree, ignoreText, ignoreFileName, outputFileName, preambleFile, rpc,
             ignorePatterns, allFiles, reIncluded, negIdx, nonIgnoredFiles>>

binVars == <<binFile, binResult, binOpened, binClosed>>

loadVars == <<loadText, osPlatform, lpc, loadPatterns, loadPositive, loadNegative>>

procVars == <<exitCode, stderr>>

cfgVars == <<cfgSources, cfgResult>>

mainVars == <<repoPathInput, mpc, configFromFile, showProgress, outputPath,
              outState, outFile, stdout>>

(***************************************************************************)
(* Bounds of the model.                                                    *)
(***************************************************************************)
MaxFiles == 2       \* entries of the resolved list handed to the assembler
MaxBytes == 2       \* bytes of text content on disk, all entries together
MaxCeil == 2        \* largest ceiling tried (the smallest is -1)

(***************************************************************************)
(* Small helpers.                                                          *)
(***************************************************************************)
Min(a, b) == IF a < b THEN a ELSE b

Max(a, b) == IF a > b THEN a ELSE b

Take(s, n) == SubSeq(s, 1, Min(Max(n, 0), Len(s)))

Drop(s, n) == SubSeq(s, Min(Max(n, 0), Len(s)) + 1, Len(s))

SeqsUpTo(S, n) == UNION {[1..k -> S] : k \in 0..n}

Range(s) == {s[i] : i \in 1..Len(s)}

(***************************************************************************)
(* Paths are sequences of segments.  What the code reads off a segment's   *)
(* text (its stem and the text after its last dot) is tabulated here.      *)
(***************************************************************************)
SegSuffix(seg) ==
    CASE seg \in {"a.txt", "output.txt", "pre.txt", "file.txt"} -> "txt"
      [] seg \in {"b.ts", "c.ts"} -> "ts"
      [] seg = "m.js" -> "js"
      [] seg \in {"img.bin", ".bin"} -> "bin"
      [] seg = "another.BIN" -> "BIN"
      [] seg = "mixed.Bin" -> "Bin"
      [] seg = ".repo2promptignore" -> "repo2promptignore"
      [] OTHER -> ""

\* A segment that is a dot followed by a name with no further dot.
IsDotFile(seg) == seg \in {".bin", ".repo2promptignore", ".git"}

\* path.extname: the text from the last dot of the last segment, "" for a
\* dot-file such as ".bin" (the dot is kept out of the model's value).
extname(path) ==
    IF path = <<>> \/ IsDotFile(path[Len(path)]) THEN ""
    ELSE SegSuffix(path[Len(path)])

\* String.prototype.toLowerCase on the extensions of the model.
toLowerCase(ext) == IF ext \in {"BIN", "Bin"} THEN "bin" ELSE ext

(***************************************************************************)
(* Bytes.  0x41 'A', 0xC3 (lead byte of a 2-byte sequence), 0xA9 (a        *)
(* continuation byte): C3 A9 is a valid sequence, a lone C3 or A9 is not.  *)
(***************************************************************************)
TextBytes == {65, 195, 169}

IsLead2(b) == b \in 194..223

IsCont(b) == b \in 128..191

\* U+FFFD as utf-8.
Replacement == <<239, 191, 189>>

(***************************************************************************)
(* fs.createReadStream(path, {encoding: 'utf-8'}) hands the 'data'         *)
(* listener decoded strings, and the listener turns each back into bytes   *)
(* with Buffer.from(chunk, 'utf-8').  Utf8Write(s) is that round trip for  *)
(* the bytes s = held-back bytes \o raw chunk: out is the re-encoded text, *)
(* pend the incomplete sequence the decoder keeps for the next chunk.      *)
(***************************************************************************)
RECURSIVE Utf8Write(_)
Utf8Write(s) ==
    IF s = <<>> THEN [out |-> <<>>, pend |-> <<>>]
    ELSE IF IsLead2(s[1]) THEN
        IF Len(s) = 1 THEN [out |-> <<>>, pend |-> s]
        ELSE IF IsCont(s[2]) THEN
            LET r == Utf8Write(Drop(s, 2))
            IN  [out |-> <<s[1], s[2]>> \o r.out, pend |-> r.pend]
        ELSE
            LET r == Utf8Write(Tail(s))
            IN  [out |-> Replacement \o r.out, pend |-> r.pend]
    ELSE IF s[1] < 128 THEN
        LET r == Utf8Write(Tail(s))
        IN  [out |-> <<s[1]>> \o r.out, pend |-> r.pend]
    ELSE
        LET r == Utf8Write(Tail(s))
        IN  [out |-> Replacement \o r.out, pend |-> r.pend]

\* StringDecoder.end(): an incomplete sequence left at end of file.
Utf8End(pend) == IF pend = <<>> THEN <<>> ELSE Replacement

(***************************************************************************)
(* Units of the output.  Every unit the program writes is one record;      *)
(* content bytes are written one unit per byte.                            *)
(***************************************************************************)
Unit(t, n, p) == [t |-> t, n |-> n, p |-> p]

ByteUnit(b) == Unit("byte", b, <<>>)

AsUnits(bs) == [i \in 1..Len(bs) |-> ByteUnit(bs[i])]

\* `----[${n}]\n`
SepLine(n) == Unit("sep", n, <<>>)

\* `${relativePath}\n`
PathLine(p) == Unit("path", 0, p)

\* `[BINARY FILE] Size: ${size} bytes, Modified: ${mtime}\n`
MetaLine(size) == Unit("meta", size, <<>>)

\* '\n[TRUNCATED]\n'
TruncMarker == Unit("marker", 0, <<>>)

\* '\n'
Newline == ByteUnit(10)

PreambleText == Unit("preamble", 0, <<>>)

\* 'Table of Contents:\n'
TocHeader == Unit("tocHeader", 0, <<>>)

\* `${n}. ${filePath}\n`
TocEntry(n, p) == Unit("tocEntry", n, p)

\* the '\n' that closes the table of contents
TocBlank == Unit("tocBlank", 0, <<>>)

\* '--END--\n'
EndMarker == Unit("end", 0, <<>>)

(***************************************************************************)
(* What the disk holds for a file: pad filler bytes 'A' (0x41), then bytes. *)
(***************************************************************************)
Size(f) == f.pad + Len(f.bytes)

\* the byte at 0-based offset i
ByteAt(f, i) == IF i < f.pad THEN 65 ELSE f.bytes[i - f.pad + 1]

(***************************************************************************)
(* isBinaryFile.  openOk / readOk: whether fsp.open and fd.read succeed.   *)
(***************************************************************************)
PrefixLen == 512

\* the scan run over the whole file instead of the 512-byte buffer
isBinaryFileWholeFile(f, openOk, readOk) ==
    IF toLowerCase(extname(f.path)) = "bin" THEN TRUE
    ELSE IF ~openOk \/ ~readOk THEN FALSE
    ELSE \E i \in 0..(Size(f) - 1) : ByteAt(f, i) = 0

isBinaryFile(f, openOk, readOk) ==
    IF toLowerCase(extname(f.path)) = "bin" THEN TRUE
    ELSE IF ~openOk \/ ~readOk THEN FALSE
    ELSE LET bytesRead == Min(PrefixLen, Size(f))
         IN  \E i \in 0..(bytesRead - 1) : ByteAt(f, i) = 0

(***************************************************************************)
(* buildTableOfContents.                                                   *)
(***************************************************************************)
\* numbering from the array index instead of index + 1
buildTableOfContentsFromZero(fileList) ==
    <<TocHeader>>
        \o [i \in 1..Len(fileList) |-> TocEntry(i - 1, fileList[i])]
        \o <<TocBlank>>

buildTableOfContents(fileList) ==
    <<TocHeader>>
        \o [i \in 1..Len(fileList) |-> TocEntry(i, fileList[i])]
        \o <<TocBlank>>

(***************************************************************************)
(* The assembly phase.                                                     *)
(***************************************************************************)
\* nonIgnoredFiles, as main hands it to buildTableOfContents and
\* writeFilesWithIndex
fileList == [i \in 1..Len(files) |-> files[i].path]

\* the entry the loop is at
Cur == files[idx + 1]

\* outputStream.write during entry idx + 1
WriteEntry(units) ==
    /\ sink' = sink \o units
    /\ wrote' = [wrote EXCEPT ![idx + 1] = @ \o units]

\* bar.increment() behind `if (bar)`
BarIncrement == barIncs' = IF hasBar THEN barIncs + 1 ELSE barIncs

\* a separate counter that advances only when a section is written
SectionIndexCounted(i) == Cardinality({k \in 1..i : wrote[k] # <<>>}) + 1

\* the loop index itself
SectionIndexFromZero(i) == i

\* the number a section's separator carries
SectionIndex(i) == i + 1

\* main 538-542: the preamble and the table of contents, before any file is read
MainWriteToc ==
    /\ pc = "toc"
    /\ sink' = sink \o <<PreambleText>> \o buildTableOfContents(fileList)
    /\ pc' = "loop"
    /\ UNCHANGED <<files, maxSize, hasBar, idx, pos, pending, bytesWritten,
                   truncated, rsLive, promise, barIncs, barStops, wrote,
                   streamOut, outcome>>
    /\ UNCHANGED <<resVars, binVars, loadVars, procVars, cfgVars, mainVars>>

\* fsp.stat throws: the catch warns and continues
StatFails ==
    /\ pc = "loop" /\ idx < Len(files)
    /\ outcome' = [outcome EXCEPT ![idx + 1] = "statFailed"]
    /\ idx' = idx + 1
    /\ UNCHANGED <<files, maxSize, hasBar, pc, sink, pos, pending, bytesWritten,
                   truncated, rsLive, promise, barIncs, barStops, wrote,
                   streamOut>>
    /\ UNCHANGED <<resVars, binVars, loadVars, procVars, cfgVars, mainVars>>

\* the binary branch without its `else`: the metadata line, then the text
\* branch as well
EntryBinaryAlsoStreams ==
    /\ pc = "loop" /\ idx < Len(files)
    /\ \E openOk, readOk \in BOOLEAN : isBinaryFile(Cur, openOk, readOk)
    /\ WriteEntry(<<SepLine(SectionIndex(idx)), PathLine(Cur.path),
                    MetaLine(Size(Cur))>>)
    /\ pos' = 0 /\ pending' = <<>>
    /\ bytesWritten' = 0 /\ truncated' = FALSE
    /\ rsLive' = TRUE /\ promise' = "pending"
    /\ streamOut' = <<>>
    /\ pc' = "stream"
    /\ UNCHANGED <<files, maxSize, hasBar, idx, barIncs, barStops, outcome>>
    /\ UNCHANGED <<resVars, binVars, loadVars, procVars, cfgVars, mainVars>>

\* stat succeeds and isBinaryFile says binary: separator, path, metadata line
EntryBinary ==
    /\ pc = "loop" /\ idx < Len(files)
    /\ \E openOk, readOk \in BOOLEAN : isBinaryFile(Cur, openOk, readOk)
    /\ WriteEntry(<<SepLine(SectionIndex(idx)), PathLine(Cur.path),
                    MetaLine(Size(Cur))>>)
    /\ BarIncrement
    /\ outcome' = [outcome EXCEPT ![idx + 1] = "written"]
    /\ idx' = idx + 1
    /\ UNCHANGED <<files, maxSize, hasBar, pc, pos, pending, bytesWritten,
                   truncated, rsLive, promise, barStops, streamOut>>
    /\ UNCHANGED <<resVars, binVars, loadVars, procVars, cfgVars, mainVars>>

\* stat succeeds and isBinaryFile says text: separator, path, then
\* streamFileWithLimit creates the read stream and the loop awaits its promise
EntryText ==
    /\ pc = "loop" /\ idx < Len(files)
    /\ \E openOk, readOk \in BOOLEAN : ~isBinaryFile(Cur, openOk, readOk)
    /\ WriteEntry(<<SepLine(SectionIndex(idx)), PathLine(Cur.path)>>)
    /\ pos' = 0 /\ pending' = <<>>
    /\ bytesWritten' = 0 /\ truncated' = FALSE
    /\ rsLive' = TRUE /\ promise' = "pending"
    /\ streamOut' = <<>>
    /\ pc' = "stream"
    /\ UNCHANGED <<files, maxSize, hasBar, idx, barIncs, barStops, outcome>>
    /\ UNCHANGED <<resVars, binVars, loadVars, procVars, cfgVars, mainVars>>

(***************************************************************************)
(* streamFileWithLimit: the listeners of the read stream.                  *)
(***************************************************************************)
\* Buffer.prototype.slice(0, end): a negative end counts from the end
BufSlice(buf, end) ==
    IF end >= 0 THEN Take(buf, end) ELSE Take(buf, Len(buf) + end)

\* The 'data' listener run on chunkBuffer: w the units it writes, bw and tr
\* the new bytesWritten and truncated, hit whether it called
\* readStream.destroy() and resolve().
dataListener(chunkBuffer) ==
    IF truncated
    THEN [w |-> <<>>, bw |-> bytesWritten, tr |-> TRUE, hit |-> FALSE]
    ELSE IF bytesWritten + Len(chunkBuffer) > maxSize
         THEN [w |-> AsUnits(BufSlice(chunkBuffer, maxSize - bytesWritten))
                       \o <<TruncMarker>>,
               bw |-> bytesWritten, tr |-> TRUE, hit |-> TRUE]
         ELSE [w |-> AsUnits(chunkBuffer),
               bw |-> bytesWritten + Len(chunkBuffer), tr |-> FALSE, hit |-> FALSE]

\* no 'data' is emitted for an empty decoded chunk
Emit(decoded) ==
    IF decoded = <<>>
    THEN [w |-> <<>>, bw |-> bytesWritten, tr |-> truncated, hit |-> FALSE]
    ELSE dataListener(decoded)

\* resolve() on a promise: only a pending promise changes
Resolved(p) == IF p = "pending" THEN "resolved" ELSE p

\* the 'data' listener without readStream.destroy(): the stream stays live
\* after the promise has resolved
OnDataKeepsReading ==
    /\ pc = "stream" /\ rsLive
    /\ \E k \in 1..(Len(Cur.bytes) - pos) :
         LET d == Utf8Write(pending \o SubSeq(Cur.bytes, pos + 1, pos + k))
             r == Emit(d.out)
         IN  /\ pos' = pos + k
             /\ pending' = d.pend
             /\ WriteEntry(r.w)
             /\ streamOut' = streamOut \o r.w
             /\ bytesWritten' = r.bw
             /\ truncated' = r.tr
             /\ promise' = IF r.hit THEN Resolved(promise) ELSE promise
             /\ rsLive' = TRUE
    /\ UNCHANGED <<files, maxSize, hasBar, pc, idx, barIncs, barStops, outcome>>
    /\ UNCHANGED <<resVars, binVars, loadVars, procVars, cfgVars, mainVars>>

\* the read stream delivers the next k raw bytes of the file
OnData ==
    /\ pc = "stream" /\ rsLive
    /\ \E k \in 1..(Len(Cur.bytes) - pos) :
         LET d == Utf8Write(pending \o SubSeq(Cur.bytes, pos + 1, pos + k))
             r == Emit(d.out)
         IN  /\ pos' = pos + k
             /\ pending' = d.pend
             /\ WriteEntry(r.w)
             /\ streamOut' = streamOut \o r.w
             /\ bytesWritten' = r.bw
             /\ truncated' = r.tr
             /\ promise' = IF r.hit THEN Resolved(promise) ELSE promise
             /\ rsLive' = ~r.hit
    /\ UNCHANGED <<files, maxSize, hasBar, pc, idx, barIncs, barStops, outcome>>
    /\ UNCHANGED <<resVars, binVars, loadVars, procVars, cfgVars, mainVars>>

\* an 'end' listener that never calls resolve()
OnEndWithoutResolve ==
    /\ pc = "stream" /\ rsLive /\ pos = Len(Cur.bytes)
    /\ LET r == Emit(Utf8End(pending))
       IN  /\ WriteEntry(r.w)
           /\ streamOut' = streamOut \o r.w
           /\ bytesWritten' = r.bw
           /\ truncated' = r.tr
           /\ promise' = IF r.hit THEN Resolved(promise) ELSE promise
    /\ pending' = <<>>
    /\ rsLive' = FALSE
    /\ UNCHANGED <<files, maxSize, hasBar, pc, idx, pos, barIncs, barStops,
                   outcome>>
    /\ UNCHANGED <<resVars, binVars, loadVars, procVars, cfgVars, mainVars>>

\* end of file: the decoder flushes what it held back as a last 'data'; then
\* 'end' is emitted, unless that listener destroyed the stream, and its
\* listener resolves if nothing was truncated
OnEnd ==
    /\ pc = "stream" /\ rsLive /\ pos = Len(Cur.bytes)
    /\ LET r == Emit(Utf8End(pending))
       IN  /\ WriteEntry(r.w)
           /\ streamOut' = streamOut \o r.w
           /\ bytesWritten' = r.bw
           /\ truncated' = r.tr
           /\ promise' = IF r.hit \/ ~r.tr THEN Resolved(promise) ELSE promise
    /\ pending' = <<>>
    /\ rsLive' = FALSE
    /\ UNCHANGED <<files, maxSize, hasBar, pc, idx, pos, barIncs, barStops,
                   outcome>>
    /\ UNCHANGED <<resVars, binVars, loadVars, procVars, cfgVars, mainVars>>

\* a read stream that goes on emitting after its 'error'
OnErrorKeepsStream ==
    /\ pc = "stream" /\ rsLive
    /\ promise' = IF promise = "pending" THEN "rejected" ELSE promise
    /\ rsLive' = TRUE
    /\ UNCHANGED <<files, maxSize, hasBar, pc, idx, sink, pos, pending,
                   bytesWritten, truncated, barIncs, barStops, wrote, streamOut,
                   outcome>>
    /\ UNCHANGED <<resVars, binVars, loadVars, procVars, cfgVars, mainVars>>

\* the read stream fails (at open or at a later read): 'error', reject(err)
OnError ==
    /\ pc = "stream" /\ rsLive
    /\ promise' = IF promise = "pending" THEN "rejected" ELSE promise
    /\ rsLive' = FALSE
    /\ UNCHANGED <<files, maxSize, hasBar, pc, idx, sink, pos, pending,
                   bytesWritten, truncated, barIncs, barStops, wrote, streamOut,
                   outcome>>
    /\ UNCHANGED <<resVars, binVars, loadVars, procVars, cfgVars, mainVars>>

(***************************************************************************)
(* writeFilesWithIndex after `await streamFileWithLimit(...)`.             *)
(***************************************************************************)
\* the promise resolved: the trailing '\n', bar.increment(), next entry
AfterResolve ==
    /\ pc = "stream" /\ promise = "resolved"
    /\ WriteEntry(<<Newline>>)
    /\ BarIncrement
    /\ outcome' = [outcome EXCEPT ![idx + 1] = "written"]
    /\ idx' = idx + 1
    /\ promise' = "none"
    /\ pc' = "loop"
    /\ UNCHANGED <<files, maxSize, hasBar, pos, pending, bytesWritten, truncated,
                   rsLive, barStops, streamOut>>
    /\ UNCHANGED <<resVars, binVars, loadVars, procVars, cfgVars, mainVars>>

\* no catch: the rejection leaves the loop
AfterRejectRethrows ==
    /\ pc = "stream" /\ promise = "rejected"
    /\ outcome' = [outcome EXCEPT ![idx + 1] = "readFailed"]
    /\ promise' = "none"
    /\ pc' = "end"
    /\ UNCHANGED <<files, maxSize, hasBar, idx, sink, pos, pending, bytesWritten,
                   truncated, rsLive, barIncs, barStops, wrote, streamOut>>
    /\ UNCHANGED <<resVars, binVars, loadVars, procVars, cfgVars, mainVars>>

\* the promise rejected: the catch warns and continues
AfterReject ==
    /\ pc = "stream" /\ promise = "rejected"
    /\ outcome' = [outcome EXCEPT ![idx + 1] = "readFailed"]
    /\ idx' = idx + 1
    /\ promise' = "none"
    /\ pc' = "loop"
    /\ UNCHANGED <<files, maxSize, hasBar, sink, pos, pending, bytesWritten,
                   truncated, rsLive, barIncs, barStops, wrote, streamOut>>
    /\ UNCHANGED <<resVars, binVars, loadVars, procVars, cfgVars, mainVars>>

\* bar.stop() left out when the list is empty
LoopExitNoStopOnEmpty ==
    /\ pc = "loop" /\ idx = Len(files)
    /\ barStops' = IF hasBar /\ Len(files) > 0 THEN barStops + 1 ELSE barStops
    /\ pc' = "end"
    /\ UNCHANGED <<files, maxSize, hasBar, idx, sink, pos, pending, bytesWritten,
                   truncated, rsLive, promise, barIncs, wrote, streamOut, outcome>>
    /\ UNCHANGED <<resVars, binVars, loadVars, procVars, cfgVars, mainVars>>

\* the loop is over: bar.stop() behind `if (bar)`, back in main
LoopExit ==
    /\ pc = "loop" /\ idx = Len(files)
    /\ barStops' = IF hasBar THEN barStops + 1 ELSE barStops
    /\ pc' = "end"
    /\ UNCHANGED <<files, maxSize, hasBar, idx, sink, pos, pending, bytesWritten,
                   truncated, rsLive, promise, barIncs, wrote, streamOut, outcome>>
    /\ UNCHANGED <<resVars, binVars, loadVars, procVars, cfgVars, mainVars>>

\* the end marker left out when there was nothing to write
MainWriteEndUnlessEmpty ==
    /\ pc = "end"
    /\ sink' = IF files = <<>> THEN sink ELSE sink \o <<EndMarker>>
    /\ pc' = "done"
    /\ UNCHANGED <<files, maxSize, hasBar, idx, pos, pending, bytesWritten,
                   truncated, rsLive, promise, barIncs, barStops, wrote,
                   streamOut, outcome>>
    /\ UNCHANGED <<resVars, binVars, loadVars, procVars, cfgVars, mainVars>>

\* main 553-555: the end marker, outputStream.end()
MainWriteEnd ==
    /\ pc = "end"
    /\ sink' = sink \o <<EndMarker>>
    /\ pc' = "done"
    /\ UNCHANGED <<files, maxSize, hasBar, idx, pos, pending, bytesWritten,
                   truncated, rsLive, promise, barIncs, barStops, wrote,
                   streamOut, outcome>>
    /\ UNCHANGED <<resVars, binVars, loadVars, procVars, cfgVars, mainVars>>

(***************************************************************************)
(* Glob patterns.  A pattern is a sequence of segment patterns; it is      *)
(* matched against a whole repository-relative path, as glob does for the  *)
(* pattern it walks and for its `ignore` option (dot: true in both).       *)
(***************************************************************************)
\* a literal segment
Lit(v) == [k |-> "lit", v |-> v]

\* "*"
Star == [k |-> "star", v |-> ""]

\* "*.<e>"
Suffix(e) == [k |-> "suffix", v |-> e]

\* "**"
GlobStar == [k |-> "globstar", v |-> ""]

\* a pattern the matcher rejects: minimatch throws 'pattern is too long' for
\* more than 65536 characters (a pattern such as "[" is taken literally)
TooLong == [k |-> "tooLong", v |-> ""]

\* the leading part of a pattern written as an absolute path: repoRoot itself
Root == [k |-> "root", v |-> ""]

\* the pattern is absolute
IsAbsolute(pat) == pat # <<>> /\ pat[1].k = "root"

Malformed(pat) == \E i \in 1..Len(pat) : pat[i].k = "tooLong"

SegMatch(sp, seg) ==
    CASE sp.k = "lit" -> seg = sp.v
      [] sp.k = "star" -> TRUE
      [] sp.k = "suffix" -> SegSuffix(seg) = sp.v
      [] OTHER -> FALSE

RECURSIVE Match(_, _)
Match(pat, path) ==
    IF pat = <<>> THEN path = <<>>
    ELSE IF pat[1].k = "root" THEN Match(Tail(pat), path)
    ELSE IF pat[1].k = "globstar"
         THEN \/ Match(Tail(pat), path)
              \/ path # <<>> /\ Match(pat, Tail(path))
         ELSE /\ path # <<>>
              /\ SegMatch(pat[1], path[1])
              /\ Match(Tail(pat), Tail(path))

(***************************************************************************)
(* Names and strings.  A configured name is kept with the form the user    *)
(* wrote it in: "plain" (output.txt, out/dump.txt), "dot" (./output.txt)   *)
(* or "abs" (<repoRoot>/output.txt).  glob returns plain relative paths.   *)
(***************************************************************************)
Name(form, path) == [form |-> form, path |-> path]

\* the string glob returns for a path
Str(path) == Name("plain", path)

\* preambleFile = null
NoPreamble == Name("none", <<>>)

\* a string used as an ignore glob: glob's Ignore strips leading "./" and
\* matches an absolute pattern against the absolute path, so every form of
\* a name matches the file it names
NameGlob(nm) == [i \in 1..Len(nm.path) |-> Lit(nm.path[i])]

(***************************************************************************)
(* The repository tree.  TreeOrder is the order in which glob walks it.    *)
(***************************************************************************)
TreeOrder ==
    << <<".git", "config">>, <<".repo2promptignore">>, <<"a.txt">>, <<"b.ts">>,
       <<"img.bin">>, <<"node_modules", "m.js">>, <<"out", "dump.txt">>,
       <<"output.txt">>, <<"pre.txt">>, <<"sub", "c.ts">> >>

\* files that may or may not be there when main runs
OptionalFiles == {<<".repo2promptignore">>, <<"output.txt">>}

Trees == {Range(TreeOrder) \ d : d \in SUBSET OptionalFiles}

\* glob(pattern, {cwd: repoRoot, nodir: true, dot: true, ignore}): with the
\* `absolute` option unset, the matches of an absolute pattern are returned
\* as absolute paths, the others relative to cwd
GlobWalk(pat, ignore) ==
    LET Hit(p) == /\ p \in tree
                  /\ Match(pat, p)
                  /\ \A i \in 1..Len(ignore) : ~Match(ignore[i], p)
        hits == SelectSeq(TreeOrder, Hit)
    IN  [i \in 1..Len(hits) |->
            IF IsAbsolute(pat) THEN Name("abs", hits[i]) ELSE Str(hits[i])]

(***************************************************************************)
(* getIgnoreList and main's split of its result.  A line of the ignore     *)
(* file is blank, a comment, or text: a glob, with '!' in front or not.    *)
(***************************************************************************)
getIgnoreList(lines) ==
    LET Kept(l) == l.kind = "text"
        kept == SelectSeq(lines, Kept)
    IN  [i \in 1..Len(kept) |-> [neg |-> kept[i].neg, segs |-> kept[i].segs]]

\* ignorePatterns.filter((p) => !p.startsWith('!'))
positivePatterns ==
    LET Pos(p) == ~p.neg
        sel == SelectSeq(ignorePatterns, Pos)
    IN  [i \in 1..Len(sel) |-> sel[i].segs]

\* ignorePatterns.filter((p) => p.startsWith('!')).map((p) => p.slice(1))
negativePatterns ==
    LET Neg(p) == p.neg
        sel == SelectSeq(ignorePatterns, Neg)
    IN  [i \in 1..Len(sel) |-> sel[i].segs]

\* the names, without the two fixed directory globs
ignoreGlobsNoInfra ==
    positivePatterns
        \o <<NameGlob(ignoreFileName), NameGlob(outputFileName)>>
        \o (IF preambleFile = NoPreamble THEN <<>> ELSE <<NameGlob(preambleFile)>>)

ignoreGlobs ==
    positivePatterns
        \o << <<Lit(".git"), GlobStar>>, <<Lit("node_modules"), GlobStar>> >>
        \o <<NameGlob(ignoreFileName), NameGlob(outputFileName)>>
        \o (IF preambleFile = NoPreamble THEN <<>> ELSE <<NameGlob(preambleFile)>>)

\* the re-include glob given the ignore option of the first pass
reIncludeMatchesIgnoring(pat) ==
    IF Malformed(pat) THEN <<>> ELSE GlobWalk(pat, ignoreGlobs)

\* glob(pat, {cwd: repoRoot, nodir: true, dot: true, follow: false}); when it
\* throws, the catch of the loop leaves reIncluded as it is
reIncludeMatches(pat) == IF Malformed(pat) THEN <<>> ELSE GlobWalk(pat, <<>>)

\* new Set(array) / Array.from(set): first occurrences, in insertion order
RECURSIVE AddAll(_, _)
AddAll(set, s) ==
    IF s = <<>> THEN set
    ELSE AddAll(IF s[1] \in Range(set) THEN set ELSE Append(set, s[1]), Tail(s))

Dedup(s) == AddAll(<<>>, s)

\* Set.prototype.delete(x): string equality
Delete(s, x) ==
    LET Keep(e) == e # x
    IN  SelectSeq(s, Keep)

\* path.join(repoRoot, ignoreFileName) names a file that exists
IgnoreFileOnDisk == ignoreFileName.path \in tree

(***************************************************************************)
(* main 396-465: the steps of the resolution.                              *)
(***************************************************************************)
\* the ignore file is read if it exists
ReadIgnore ==
    /\ rpc = "start"
    /\ ignorePatterns' = IF IgnoreFileOnDisk THEN getIgnoreList(ignoreText)
                         ELSE <<>>
    /\ rpc' = "glob"
    /\ UNCHANGED <<tree, ignoreText, ignoreFileName, outputFileName, preambleFile,
                   allFiles, reIncluded, negIdx, nonIgnoredFiles>>
    /\ UNCHANGED <<asmVars, binVars, loadVars, procVars, cfgVars, mainVars>>

\* the ignore file exists but getIgnoreList throws: process.exit(1)
IgnoreUnreadable ==
    /\ rpc = "start" /\ IgnoreFileOnDisk
    /\ rpc' = "exit"
    /\ stderr' = Append(stderr, "unable to read ignore file")
    /\ exitCode' = "1"
    /\ UNCHANGED <<tree, ignoreText, ignoreFileName, outputFileName, preambleFile,
                   ignorePatterns, allFiles, reIncluded, negIdx, nonIgnoredFiles>>
    /\ UNCHANGED <<asmVars, binVars, loadVars, cfgVars, mainVars>>

\* glob('**/*', {..., ignore: ignoreGlobs}) throws on an ignore pattern the
\* matcher rejects: the catch logs and calls process.exit(1)
FirstGlobFails ==
    /\ rpc = "glob"
    /\ \E i \in 1..Len(ignoreGlobs) : Malformed(ignoreGlobs[i])
    /\ rpc' = "globExit"
    /\ stderr' = Append(stderr, "Error while building the file list.")
    /\ exitCode' = "1"
    /\ UNCHANGED <<tree, ignoreText, ignoreFileName, outputFileName, preambleFile,
                   ignorePatterns, allFiles, reIncluded, negIdx, nonIgnoredFiles>>
    /\ UNCHANGED <<asmVars, binVars, loadVars, cfgVars, mainVars>>

\* glob('**/*', {..., ignore: ignoreGlobs})
FirstGlob ==
    /\ rpc = "glob"
    /\ \A i \in 1..Len(ignoreGlobs) : ~Malformed(ignoreGlobs[i])
    /\ allFiles' = GlobWalk(<<GlobStar, Star>>, ignoreGlobs)
    /\ negIdx' = 1
    /\ rpc' = "reinclude"
    /\ UNCHANGED <<tree, ignoreText, ignoreFileName, outputFileName, preambleFile,
                   ignorePatterns, reIncluded, nonIgnoredFiles>>
    /\ UNCHANGED <<asmVars, binVars, loadVars, procVars, cfgVars, mainVars>>

\* one turn of `for (const pat of negativePatterns)`
ReInclude ==
    /\ rpc = "reinclude" /\ negIdx <= Len(negativePatterns)
    /\ reIncluded' = reIncluded \o reIncludeMatches(negativePatterns[negIdx])
    /\ negIdx' = negIdx + 1
    /\ UNCHANGED <<tree, ignoreText, ignoreFileName, outputFileName, preambleFile,
                   rpc, ignorePatterns, allFiles, nonIgnoredFiles>>
    /\ UNCHANGED <<asmVars, binVars, loadVars, procVars, cfgVars, mainVars>>

\* mergedSet, the three deletes, Array.from
Merge ==
    /\ rpc = "reinclude" /\ negIdx > Len(negativePatterns)
    /\ LET mergedSet == Dedup(allFiles \o reIncluded)
           d1 == Delete(mergedSet, ignoreFileName)
           d2 == Delete(d1, outputFileName)
           d3 == IF preambleFile = NoPreamble THEN d2 ELSE Delete(d2, preambleFile)
       IN  nonIgnoredFiles' = d3
    /\ rpc' = "resolved"
    /\ UNCHANGED <<tree, ignoreText, ignoreFileName, outputFileName, preambleFile,
                   ignorePatterns, allFiles, reIncluded, negIdx>>
    /\ UNCHANGED <<asmVars, binVars, loadVars, procVars, cfgVars, mainVars>>

(***************************************************************************)
(* One call of isBinaryFile(filePath), with the handles it opens and       *)
(* closes: none for a .bin name; otherwise fsp.open, and fd.close() only   *)
(* when fd.read did not throw.                                             *)
(***************************************************************************)
CallIsBinaryFile ==
    /\ binResult = "none"
    /\ binResult' = IF isBinaryFile(binFile, binFile.openOk, binFile.readOk)
                    THEN "true" ELSE "false"
    /\ binOpened' = IF toLowerCase(extname(binFile.path)) # "bin" /\ binFile.openOk
                    THEN binOpened + 1 ELSE binOpened
    /\ binClosed' = IF /\ toLowerCase(extname(binFile.path)) # "bin"
                       /\ binFile.openOk /\ binFile.readOk
                    THEN binClosed + 1 ELSE binClosed
    /\ UNCHANGED binFile
    /\ UNCHANGED <<asmVars, resVars, loadVars, procVars, cfgVars, mainVars>>

(***************************************************************************)
(* loadConfig.  A JSON value is an object with some of the keys            *)
(* ignoreFile, preamble and output (an absent key is Undefined), null, or  *)
(* a scalar.  A source is the state of its file and the value it parses    *)
(* to; for package.json the value is that of its "repo2prompt" field.      *)
(***************************************************************************)
\* a key that is not there
Undefined == NoPreamble

Json(kind, i, p, o) ==
    [kind |-> kind, ignoreFile |-> i, preamble |-> p, output |-> o]

\* {}
EmptyConfig == Json("object", Undefined, Undefined, Undefined)

\* null, and undefined where a field is missing
JsonNull == Json("null", Undefined, Undefined, Undefined)

\* a number, a string, true
JsonScalar == Json("scalar", Undefined, Undefined, Undefined)

\* {"output": "out/dump.txt"}
ConfigA == Json("object", Undefined, Undefined, Name("plain", <<"out", "dump.txt">>))

\* {"ignoreFile": "./.repo2promptignore", "preamble": "pre.txt"}
ConfigB ==
    Json("object", Name("dot", <<".repo2promptignore">>), Name("plain", <<"pre.txt">>),
         Undefined)

\* {"preamble": "./pre.txt", "output": "<repoRoot>/output.txt"}
ConfigC ==
    Json("object", Undefined, Name("dot", <<"pre.txt">>), Name("abs", <<"output.txt">>))

JsonValues == {EmptyConfig, JsonNull, JsonScalar, ConfigA, ConfigB, ConfigC}

Source(state, json) == [state |-> state, json |-> json]

\* --config: not given, or the file it names
ExplicitSources ==
    {Source(st, EmptyConfig) : st \in {"none", "unreadable", "malformed"}}
        \cup {Source("ok", j) : j \in JsonValues}

\* <repoRoot>/.repo2prompt.json
RcSources ==
    {Source(st, EmptyConfig) : st \in {"absent", "unreadable", "malformed"}}
        \cup {Source("ok", j) : j \in JsonValues}

\* <repoRoot>/package.json; "nullJson": the file holds null
PkgSources ==
    {Source(st, EmptyConfig) : st \in {"absent", "unreadable", "malformed", "nullJson"}}
        \cup {Source("ok", j) : j \in JsonValues}

\* what a call of loadConfig does: it returns config, or it writes msg to
\* stderr and calls process.exit(1)
Returns(config) == [done |-> TRUE, exit |-> FALSE, msg |-> "", config |-> config]

Exits(msg) == [done |-> TRUE, exit |-> TRUE, msg |-> msg, config |-> EmptyConfig]

NotRun == [done |-> FALSE, exit |-> FALSE, msg |-> "", config |-> EmptyConfig]

\* an unreadable or malformed .repo2prompt.json passed over
loadConfigFallsThrough(explicit, rc, pkg) ==
    IF explicit.state # "none"
    THEN IF explicit.state = "ok" THEN Returns(explicit.json)
         ELSE Exits("unable to read specified config file")
    ELSE IF rc.state = "ok" THEN Returns(rc.json)
    ELSE IF pkg.state = "ok" /\ pkg.json.kind = "object" THEN Returns(pkg.json)
    ELSE Returns(EmptyConfig)

loadConfig(explicit, rc, pkg) ==
    IF explicit.state # "none"
    THEN IF explicit.state = "ok" THEN Returns(explicit.json)
         ELSE Exits("unable to read specified config file")
    ELSE IF rc.state # "absent"
    THEN IF rc.state = "ok" THEN Returns(rc.json)
         ELSE Exits("invalid read of .repo2prompt.json")
    ELSE IF pkg.state = "ok" /\ pkg.json.kind = "object" THEN Returns(pkg.json)
    ELSE Returns(EmptyConfig)

\* one call of loadConfig
CallLoadConfig ==
    /\ ~cfgResult.done
    /\ cfgResult' = loadConfig(cfgSources.explicit, cfgSources.rc, cfgSources.pkg)
    /\ UNCHANGED cfgSources
    /\ UNCHANGED <<asmVars, resVars, binVars, loadVars, procVars, mainVars>>

(***************************************************************************)
(* The inputs of the resolution.                                           *)
(***************************************************************************)
MaxLines == 2       \* lines of the ignore file

\* "*.txt", "**/*.ts", "b.ts", "**", "node_modules/**", "<repoRoot>/b.ts",
\* and a line of more than 65536 characters
Globs ==
    { <<Suffix("txt")>>, <<GlobStar, Suffix("ts")>>, <<Lit("b.ts")>>, <<GlobStar>>,
      <<Lit("node_modules"), GlobStar>>, <<Root, Lit("b.ts")>>, <<TooLong>> }

Lines ==
    {[kind |-> "blank", neg |-> FALSE, segs |-> <<>>],
     [kind |-> "comment", neg |-> FALSE, segs |-> <<>>]}
        \cup [kind : {"text"}, neg : BOOLEAN, segs : Globs]

IgnoreNames ==
    {Name("plain", <<".repo2promptignore">>), Name("dot", <<".repo2promptignore">>)}

OutputNames ==
    {Name("plain", <<"output.txt">>), Name("dot", <<"output.txt">>),
     Name("abs", <<"output.txt">>), Name("plain", <<"out", "dump.txt">>)}

PreambleNames == {NoPreamble, Name("plain", <<"pre.txt">>), Name("dot", <<"pre.txt">>)}

\* the other components at rest
AsmIdle ==
    /\ files = <<>> /\ maxSize = 0 /\ hasBar = FALSE
    /\ pc = "idle" /\ idx = 0 /\ sink = <<>>
    /\ pos = 0 /\ pending = <<>>
    /\ bytesWritten = 0 /\ truncated = FALSE
    /\ rsLive = FALSE /\ promise = "none"
    /\ barIncs = 0 /\ barStops = 0
    /\ wrote = <<>> /\ streamOut = <<>> /\ outcome = <<>>

ResIdle ==
    /\ tree = {} /\ ignoreText = <<>>
    /\ ignoreFileName = Name("plain", <<".repo2promptignore">>)
    /\ outputFileName = Name("plain", <<"output.txt">>)
    /\ preambleFile = NoPreamble
    /\ rpc = "idle"
    /\ ignorePatterns = <<>> /\ allFiles = <<>> /\ reIncluded = <<>>
    /\ negIdx = 1 /\ nonIgnoredFiles = <<>>

BinIdle ==
    /\ binFile = [path |-> <<>>, pad |-> 0, bytes |-> <<>>,
                  openOk |-> TRUE, readOk |-> TRUE]
    /\ binResult = "none" /\ binOpened = 0 /\ binClosed = 0

LoadIdle ==
    /\ loadText = <<>> /\ osPlatform = "linux" /\ lpc = "idle"
    /\ loadPatterns = <<>> /\ loadPositive = <<>> /\ loadNegative = <<>>

\* the file at outputPath before the write stream has opened it
NotOpened == [touched |-> FALSE, data |-> <<>>]

ProcIdle == exitCode = "running" /\ stderr = <<>>

CfgIdle ==
    /\ cfgSources = [explicit |-> Source("none", EmptyConfig),
                     rc |-> Source("absent", EmptyConfig),
                     pkg |-> Source("absent", EmptyConfig)]
    /\ cfgResult = NotRun

MainIdle ==
    /\ repoPathInput = <<>> /\ mpc = "idle"
    /\ configFromFile = EmptyConfig /\ showProgress = FALSE
    /\ outputPath = <<>> /\ outState = "none"
    /\ outFile = NotOpened /\ stdout = <<>>

InitResolve ==
    /\ tree \in Trees
    /\ ignoreFileName \in IgnoreNames
    /\ outputFileName \in OutputNames
    /\ preambleFile \in PreambleNames
    /\ ignoreText \in (IF IgnoreFileOnDisk THEN SeqsUpTo(Lines, MaxLines) ELSE {<<>>})
    /\ rpc = "start"
    /\ ignorePatterns = <<>> /\ allFiles = <<>> /\ reIncluded = <<>>
    /\ negIdx = 1 /\ nonIgnoredFiles = <<>>
    /\ AsmIdle /\ BinIdle /\ LoadIdle
    /\ ProcIdle /\ CfgIdle /\ MainIdle

NextResolve ==
    \/ ReadIgnore
    \/ IgnoreUnreadable
    \/ FirstGlobFails
    \/ FirstGlob
    \/ ReInclude
    \/ Merge

(***************************************************************************)
(* The lists the assembler is run on: up to MaxFiles distinct paths, the   *)
(* text on disk being one string of at most MaxBytes bytes cut into the    *)
(* entries' contents.                                                      *)
(***************************************************************************)
AsmPaths == {<<"a.txt">>, <<"sub", "c.ts">>, <<"img.bin">>}

Ceilings == (-1)..MaxCeil

Injective(s) == \A i, j \in DOMAIN s : s[i] = s[j] => i = j

Monotone(c) == \A i \in DOMAIN c : IF i = 0 THEN TRUE ELSE c[i - 1] <= c[i]

Init ==
    /\ \E n \in 0..MaxFiles :
       \E ps \in [1..n -> AsmPaths] :
       \E t \in SeqsUpTo(TextBytes, MaxBytes) :
       \E cut \in [0..n -> 0..Len(t)] :
         /\ Injective(ps)
         /\ cut[0] = 0 /\ cut[n] = Len(t) /\ Monotone(cut)
         /\ files = [i \in 1..n |->
                       [path |-> ps[i], pad |-> 0,
                        bytes |-> SubSeq(t, cut[i - 1] + 1, cut[i])]]
    /\ maxSize \in Ceilings
    /\ hasBar \in BOOLEAN
    /\ pc = "toc"
    /\ idx = 0
    /\ sink = <<>>
    /\ pos = 0 /\ pending = <<>>
    /\ bytesWritten = 0 /\ truncated = FALSE
    /\ rsLive = FALSE /\ promise = "none"
    /\ barIncs = 0 /\ barStops = 0
    /\ wrote = [i \in 1..Len(files) |-> <<>>]
    /\ streamOut = <<>>
    /\ outcome = [i \in 1..Len(files) |-> "pending"]
    /\ ResIdle /\ BinIdle /\ LoadIdle
    /\ ProcIdle /\ CfgIdle /\ MainIdle

Next ==
    \/ MainWriteToc
    \/ StatFails
    \/ EntryBinary
    \/ EntryText
    \/ OnData
    \/ OnEnd
    \/ OnError
    \/ AfterResolve
    \/ AfterReject
    \/ LoopExit
    \/ MainWriteEnd

vars == <<asmVars, resVars, binVars, loadVars, procVars, cfgVars, mainVars>>

Spec == Init /\ [][Next]_vars

(***************************************************************************)
(* One entry on its own, with fairness: the event loop runs every callback *)
(* that is ready, and the file system answers every read of the stream     *)
(* with data, the end of the file or an error.                             *)
(***************************************************************************)
InitStream ==
    /\ \E p \in AsmPaths, t \in SeqsUpTo(TextBytes, MaxBytes) :
         files = <<[path |-> p, pad |-> 0, bytes |-> t]>>
    /\ maxSize \in Ceilings
    /\ hasBar \in BOOLEAN
    /\ pc = "toc"
    /\ idx = 0
    /\ sink = <<>>
    /\ pos = 0 /\ pending = <<>>
    /\ bytesWritten = 0 /\ truncated = FALSE
    /\ rsLive = FALSE /\ promise = "none"
    /\ barIncs = 0 /\ barStops = 0
    /\ wrote = <<<<>>>>
    /\ streamOut = <<>>
    /\ outcome = <<"pending">>
    /\ ResIdle /\ BinIdle /\ LoadIdle
    /\ ProcIdle /\ CfgIdle /\ MainIdle

SpecStream == InitStream /\ [][Next]_vars /\ WF_vars(Next)

SpecResolve == InitResolve /\ [][NextResolve]_vars

(***************************************************************************)
(* The files isBinaryFile is applied to: a name, pad filler bytes, then up *)
(* to MaxTail bytes that are 0x00 or 'A'.                                  *)
(***************************************************************************)
MaxTail == 2

BinPaths ==
    {<<"file.txt">>, <<"img.bin">>, <<"another.BIN">>, <<"mixed.Bin">>, <<".bin">>}

PadChoices == {0, 1, PrefixLen - 2, PrefixLen - 1, PrefixLen, PrefixLen + 1}

InitBinary ==
    /\ binFile \in [path : BinPaths, pad : PadChoices,
                    bytes : SeqsUpTo({0, 65}, MaxTail),
                    openOk : BOOLEAN, readOk : BOOLEAN]
    /\ binResult = "none" /\ binOpened = 0 /\ binClosed = 0
    /\ AsmIdle /\ ResIdle /\ LoadIdle
    /\ ProcIdle /\ CfgIdle /\ MainIdle

NextBinary == CallIsBinaryFile

SpecBinary == InitBinary /\ [][NextBinary]_vars

(***************************************************************************)
(* getIgnoreList on the text of the ignore file, character by character,   *)
(* and main's split of the patterns by their first character.  CR and LF   *)
(* are the carriage return and the line feed, BS the backslash.            *)
(***************************************************************************)
MaxText == 5        \* characters of the ignore file

Chars == {"a", "/", "!", "#", " ", "CR", "LF"}

\* what String.prototype.trim removes, among Chars
Whitespace == {" ", "CR", "LF"}

\* raw.split(/\r?\n/): cur is the line being read, acc the lines before it
RECURSIVE splitLines(_, _, _)
splitLines(s, cur, acc) ==
    IF s = <<>> THEN Append(acc, cur)
    ELSE IF s[1] = "LF" THEN splitLines(Tail(s), <<>>, Append(acc, cur))
    ELSE IF s[1] = "CR" /\ Len(s) >= 2 /\ s[2] = "LF"
         THEN splitLines(Drop(s, 2), <<>>, Append(acc, cur))
    ELSE splitLines(Tail(s), Append(cur, s[1]), acc)

split(raw) == splitLines(raw, <<>>, <<>>)

RECURSIVE trimStart(_)
trimStart(s) ==
    IF s # <<>> /\ s[1] \in Whitespace THEN trimStart(Tail(s)) ELSE s

RECURSIVE trimEnd(_)
trimEnd(s) ==
    IF s # <<>> /\ s[Len(s)] \in Whitespace
    THEN trimEnd(SubSeq(s, 1, Len(s) - 1))
    ELSE s

\* line.trim()
trim(s) == trimEnd(trimStart(s))

\* s.startsWith(c), c one character
startsWith(s, c) == s # <<>> /\ s[1] = c

\* pattern.replace(/\//g, '\\')
replaceSlashes(s) == [i \in 1..Len(s) |-> IF s[i] = "/" THEN "BS" ELSE s[i]]

\* the loop with the '#' test made on the line before it is trimmed
RECURSIVE ignoreLoopUntrimmedTest(_, _, _)
ignoreLoopUntrimmedTest(lines, plat, patterns) ==
    IF lines = <<>> THEN patterns
    ELSE LET trimmed == trim(lines[1])
         IN  IF trimmed = <<>> \/ startsWith(lines[1], "#")
             THEN ignoreLoopUntrimmedTest(Tail(lines), plat, patterns)
             ELSE ignoreLoopUntrimmedTest(Tail(lines), plat,
                      Append(patterns, IF plat = "win32" THEN replaceSlashes(trimmed)
                                       ELSE trimmed))

\* for (const line of lines) { ... patterns.push(pattern) }
RECURSIVE ignoreLoop(_, _, _)
ignoreLoop(lines, plat, patterns) ==
    IF lines = <<>> THEN patterns
    ELSE LET trimmed == trim(lines[1])
         IN  IF trimmed = <<>> \/ startsWith(trimmed, "#")
             THEN ignoreLoop(Tail(lines), plat, patterns)
             ELSE ignoreLoop(Tail(lines), plat,
                      Append(patterns, IF plat = "win32" THEN replaceSlashes(trimmed)
                                       ELSE trimmed))

\* getIgnoreList, from the text it read
getIgnoreListText(raw, plat) == ignoreLoop(split(raw), plat, <<>>)

\* ignorePatterns.filter((p) => !p.startsWith('!'))
filterPositive(patterns) ==
    LET Pos(p) == ~startsWith(p, "!")
    IN  SelectSeq(patterns, Pos)

\* ignorePatterns.filter((p) => p.startsWith('!')).map((p) => p.slice(1))
filterNegative(patterns) ==
    LET Neg(p) == startsWith(p, "!")
        sel == SelectSeq(patterns, Neg)
    IN  [i \in 1..Len(sel) |-> Tail(sel[i])]

\* main 400 and 410-411 with a readable ignore file
LoadIgnoreText ==
    /\ lpc = "start"
    /\ loadPatterns' = getIgnoreListText(loadText, osPlatform)
    /\ loadPositive' = filterPositive(loadPatterns')
    /\ loadNegative' = filterNegative(loadPatterns')
    /\ lpc' = "loaded"
    /\ UNCHANGED <<loadText, osPlatform>>
    /\ UNCHANGED <<asmVars, resVars, binVars, procVars, cfgVars, mainVars>>

\* fsp.readFile rejects: getIgnoreList throws, nothing is returned
LoadIgnoreThrows ==
    /\ lpc = "start"
    /\ lpc' = "threw"
    /\ UNCHANGED <<loadText, osPlatform, loadPatterns, loadPositive, loadNegative>>
    /\ UNCHANGED <<asmVars, resVars, binVars, procVars, cfgVars, mainVars>>

InitLoad ==
    /\ loadText \in SeqsUpTo(Chars, MaxText)
    /\ osPlatform \in {"linux", "win32"}
    /\ lpc = "start"
    /\ loadPatterns = <<>> /\ loadPositive = <<>> /\ loadNegative = <<>>
    /\ AsmIdle /\ ResIdle /\ BinIdle
    /\ ProcIdle /\ CfgIdle /\ MainIdle

NextLoad ==
    \/ LoadIgnoreText
    \/ LoadIgnoreThrows

SpecLoad == InitLoad /\ [][NextLoad]_vars

(***************************************************************************)
(* loadConfig applied to every combination of sources.                     *)
(***************************************************************************)
InitConfig ==
    /\ cfgSources \in [explicit : ExplicitSources, rc : RcSources, pkg : PkgSources]
    /\ cfgResult = NotRun
    /\ AsmIdle /\ ResIdle /\ BinIdle /\ LoadIdle /\ ProcIdle /\ MainIdle

NextConfig == CallLoadConfig

SpecConfig == InitConfig /\ [][NextConfig]_vars

(***************************************************************************)
(* main, from the check of the repository path to the end of the process.  *)
(* The resolution and the assembly in between are the actions above.       *)
(* An action is the code main runs between two points where it gives the   *)
(* event loop a chance to deliver the outcome of an I/O request.           *)
(***************************************************************************)
\* process.cwd()
Cwd == <<"work">>

\* path.resolve(process.cwd(), repoPathInput)
repoRoot == Cwd \o repoPathInput

\* path.resolve(base, name); the absolute names of the model lie under repoRoot
pathResolve(base, nm) ==
    IF nm.form = "abs" THEN repoRoot \o nm.path ELSE base \o nm.path

\* the fallback `|| 1048576`
DefaultMaxSize == 1048576

\* the default '1048576' of the option's text
DefaultMaxSizeText == <<"1", "0", "4", "8", "5", "7", "6">>

Digits == <<"0", "1", "2", "3", "4", "5", "6", "7", "8", "9">>

IsDigit(c) == \E i \in 1..10 : Digits[i] = c

DigitValue(c) == (CHOOSE i \in 1..10 : Digits[i] = c) - 1

\* the value of the longest prefix of s made of digits, after acc
RECURSIVE digitsValue(_, _)
digitsValue(s, acc) ==
    IF s = <<>> \/ ~IsDigit(s[1]) THEN acc
    ELSE digitsValue(Tail(s), acc * 10 + DigitValue(s[1]))

NaN == [nan |-> TRUE, v |-> 0]

\* parseInt(s, 10): an optional sign, then the leading digits; NaN without
\* a digit there
parseInt(s) ==
    LET neg == s # <<>> /\ s[1] = "-"
        body == IF s # <<>> /\ s[1] \in {"-", "+"} THEN Tail(s) ELSE s
    IN  IF body = <<>> \/ ~IsDigit(body[1]) THEN NaN
        ELSE [nan |-> FALSE,
              v |-> IF neg THEN 0 - digitsValue(body, 0) ELSE digitsValue(body, 0)]

\* parseInt(opts.maxSize || '1048576', 10) || 1048576
parseMaxSize(opt) ==
    LET text == IF opt = <<>> THEN DefaultMaxSizeText ELSE opt
        n == parseInt(text)
    IN  IF n.nan \/ n.v = 0 THEN DefaultMaxSize ELSE n.v

\* --max-size: not given, 'abc', '0', '1', '1a', '-1'
OptMaxSize ==
    {<<>>, <<"a", "b", "c">>, <<"0">>, <<"1">>, <<"1", "a">>, <<"-", "1">>}

\* a || b || c on names, Undefined being the falsy one
Or3(a, b, c) == IF a # Undefined THEN a ELSE IF b # Undefined THEN b ELSE c

\* console.error(msg); process.exit(1)
Exit1(msg) == stderr' = Append(stderr, msg) /\ exitCode' = "1"

\* fsp.stat(repoRoot) throws, or finds something that is not a directory
MainRepoFails ==
    /\ mpc = "repo"
    /\ \E msg \in {"does not exist", "is not a directory"} : Exit1(msg)
    /\ mpc' = "exit"
    /\ UNCHANGED <<repoPathInput, configFromFile, showProgress, outputPath,
                   outState, outFile, stdout>>
    /\ UNCHANGED <<asmVars, resVars, binVars, loadVars, cfgVars>>

\* repoRoot is a directory
MainRepoOk ==
    /\ mpc = "repo"
    /\ mpc' = "config"
    /\ UNCHANGED <<repoPathInput, configFromFile, showProgress, outputPath,
                   outState, outFile, stdout>>
    /\ UNCHANGED <<asmVars, resVars, binVars, loadVars, procVars, cfgVars>>

\* const configFromFile = await loadConfig(...)
MainLoadConfig ==
    /\ mpc = "config"
    /\ \E e \in ExplicitSources, r \in RcSources, k \in PkgSources :
         LET did == loadConfig(e, r, k)
         IN  IF did.exit
             THEN /\ Exit1(did.msg)
                  /\ mpc' = "exit"
                  /\ UNCHANGED configFromFile
             ELSE /\ configFromFile' = did.config
                  /\ mpc' = "names"
                  /\ UNCHANGED procVars
    /\ UNCHANGED <<repoPathInput, showProgress, outputPath, outState, outFile,
                   stdout>>
    /\ UNCHANGED <<asmVars, resVars, binVars, loadVars, cfgVars>>

\* the command-line options --ignore, --preamble, --output
OptIgnore == {Undefined, Name("plain", <<".repo2promptignore">>)}

OptPreamble == {Undefined, Name("plain", <<"pre.txt">>)}

OptOutput ==
    {Undefined, Name("plain", <<"output.txt">>),
     Name("plain", <<"example-project", "output.txt">>)}

\* main 369-385: showProgress and the three names (CLI > config > default).
\* Reading a key of a null configFromFile throws a TypeError, which rejects
\* main: the caller prints 'Fatal error:' and calls process.exit(1).
MainNames ==
    /\ mpc = "names"
    /\ \E optIgnore \in OptIgnore, optPreamble \in OptPreamble,
          optOutput \in OptOutput, optProgress \in BOOLEAN, optDebug \in BOOLEAN :
         IF /\ configFromFile.kind = "null"
            /\ optProgress \/ Undefined \in {optIgnore, optPreamble, optOutput}
         THEN /\ Exit1("Fatal error:")
              /\ mpc' = "exit"
              /\ UNCHANGED <<showProgress, ignoreFileName, preambleFile,
                             outputFileName, rpc>>
         ELSE /\ showProgress' = (optProgress /\ ~optDebug)
              /\ ignoreFileName' = Or3(optIgnore, configFromFile.ignoreFile,
                                        Name("plain", <<".repo2promptignore">>))
              /\ preambleFile' = Or3(optPreamble, configFromFile.preamble, Undefined)
              /\ outputFileName' = Or3(optOutput, configFromFile.output,
                                        Name("plain", <<"output.txt">>))
              /\ rpc' = "start"
              /\ mpc' = "resolve"
              /\ UNCHANGED procVars
    /\ UNCHANGED <<repoPathInput, configFromFile, outputPath, outState, outFile,
                   stdout>>
    /\ UNCHANGED <<tree, ignoreText, ignorePatterns, allFiles, reIncluded, negIdx,
                   nonIgnoredFiles>>
    /\ UNCHANGED <<asmVars, binVars, loadVars, cfgVars>>

\* a preamble that is read only once the output file has been opened
MainPreambleUnreadableAfterOpen ==
    /\ mpc = "resolve" /\ rpc = "resolved"
    /\ preambleFile # NoPreamble
    /\ hasBar' = showProgress
    /\ outputPath' = pathResolve(Cwd, outputFileName)
    /\ outState' = "opening"
    /\ Exit1("unable to read preamble")
    /\ mpc' = "exit"
    /\ UNCHANGED <<repoPathInput, configFromFile, showProgress, outFile, stdout>>
    /\ UNCHANGED <<files, maxSize, pc, idx, sink, pos, pending, bytesWritten,
                   truncated, rsLive, promise, barIncs, barStops, wrote,
                   streamOut, outcome>>
    /\ UNCHANGED <<resVars, binVars, loadVars, cfgVars>>

\* main 468-492: the bar is created; the preamble file, resolved against
\* the working directory, cannot be read
MainPreambleUnreadable ==
    /\ mpc = "resolve" /\ rpc = "resolved"
    /\ preambleFile # NoPreamble
    /\ hasBar' = showProgress
    /\ Exit1("unable to read preamble")
    /\ mpc' = "exit"
    /\ UNCHANGED <<repoPathInput, configFromFile, showProgress, outputPath,
                   outState, outFile, stdout>>
    /\ UNCHANGED <<files, maxSize, pc, idx, sink, pos, pending, bytesWritten,
                   truncated, rsLive, promise, barIncs, barStops, wrote,
                   streamOut, outcome>>
    /\ UNCHANGED <<resVars, binVars, loadVars, cfgVars>>

\* main 468-524: the bar is created; the preamble is read, or is the
\* default text (preambleFile holds the CLI's or the config's name, so the
\* branch `else if (configFromFile.preamble)` is never taken)
MainLoadPreamble ==
    /\ mpc = "resolve" /\ rpc = "resolved"
    /\ hasBar' = showProgress
    /\ mpc' = "open"
    /\ UNCHANGED <<repoPathInput, configFromFile, showProgress, outputPath,
                   outState, outFile, stdout>>
    /\ UNCHANGED <<files, maxSize, pc, idx, sink, pos, pending, bytesWritten,
                   truncated, rsLive, promise, barIncs, barStops, wrote,
                   streamOut, outcome>>
    /\ UNCHANGED <<resVars, binVars, loadVars, procVars, cfgVars>>

\* path.join(repoRoot, relativePath) for an entry of the resolved list
absolutePath(e) ==
    IF e.form = "abs" THEN repoRoot \o repoRoot \o e.path ELSE repoRoot \o e.path

\* what the disk holds for the files of the resolved list
OnDisk(list) ==
    [i \in 1..Len(list) |-> [path |-> list[i].path, pad |-> 0, bytes |-> <<65, 65>>]]

\* main 527-536: fs.createWriteStream returns a stream whose file is opened
\* later; it does not throw when the file cannot be opened, so the catch is
\* not entered.  The assembly starts on the resolved list.
MainOpenOutput ==
    /\ mpc = "open"
    /\ outputPath' = pathResolve(Cwd, outputFileName)
    /\ outState' = "opening"
    /\ files' = OnDisk(nonIgnoredFiles)
    /\ wrote' = [i \in 1..Len(nonIgnoredFiles) |-> <<>>]
    /\ outcome' = [i \in 1..Len(nonIgnoredFiles) |-> "pending"]
    /\ pc' = "toc"
    /\ mpc' = "assemble"
    /\ UNCHANGED <<repoPathInput, configFromFile, showProgress, outFile, stdout>>
    /\ UNCHANGED <<maxSize, hasBar, idx, sink, pos, pending, bytesWritten,
                   truncated, rsLive, promise, barIncs, barStops, streamOut>>
    /\ UNCHANGED <<resVars, binVars, loadVars, procVars, cfgVars>>

\* main 557 and its return
MainAnnounce ==
    /\ mpc = "assemble" /\ pc = "done"
    /\ stdout' = Append(stdout, "Repository content written")
    /\ mpc' = "finished"
    /\ UNCHANGED <<repoPathInput, configFromFile, showProgress, outputPath,
                   outState, outFile>>
    /\ UNCHANGED <<asmVars, resVars, binVars, loadVars, procVars, cfgVars>>

\* main is waiting for an I/O outcome, or has returned: the event loop can
\* deliver what happened to the write stream's file
Yielded ==
    \/ mpc = "assemble" /\ pc = "stream"
    \/ mpc = "assemble" /\ pc = "loop" /\ idx < Len(files)
    \/ mpc = "finished"

\* flags 'w': the file is created, or emptied
OpenSucceeds ==
    /\ outState = "opening" /\ Yielded
    /\ outState' = "open"
    /\ outFile' = [touched |-> TRUE, data |-> <<>>]
    /\ UNCHANGED <<repoPathInput, mpc, configFromFile, showProgress, outputPath,
                   stdout>>
    /\ UNCHANGED <<asmVars, resVars, binVars, loadVars, procVars, cfgVars>>

\* the open fails: the stream emits 'error', which has no listener; Node
\* prints the uncaught exception and ends the process with code 1
OpenFails ==
    /\ outState = "opening" /\ Yielded
    /\ outState' = "failed"
    /\ Exit1("Unhandled 'error' event")
    /\ mpc' = "crashed"
    /\ pc' = "crashed"
    /\ UNCHANGED <<repoPathInput, configFromFile, showProgress, outputPath,
                   outFile, stdout>>
    /\ UNCHANGED <<files, maxSize, hasBar, idx, sink, pos, pending, bytesWritten,
                   truncated, rsLive, promise, barIncs, barStops, wrote,
                   streamOut, outcome>>
    /\ UNCHANGED <<resVars, binVars, loadVars, cfgVars>>

\* the stream's buffered writes reach the file
SinkFlush ==
    /\ outState = "open" /\ Yielded
    /\ outFile.data # sink
    /\ outFile' = [touched |-> TRUE, data |-> sink]
    /\ UNCHANGED <<repoPathInput, mpc, configFromFile, showProgress, outputPath,
                   outState, stdout>>
    /\ UNCHANGED <<asmVars, resVars, binVars, loadVars, procVars, cfgVars>>

\* nothing is left to do: the process ends with code 0
ProcessEnds ==
    /\ mpc = "finished" /\ outState = "open" /\ outFile.data = sink
    /\ exitCode' = "0"
    /\ mpc' = "ended"
    /\ UNCHANGED stderr
    /\ UNCHANGED <<repoPathInput, configFromFile, showProgress, outputPath,
                   outState, outFile, stdout>>
    /\ UNCHANGED <<asmVars, resVars, binVars, loadVars, cfgVars>>

(***************************************************************************)
(* The runs of main: the repository argument, --max-size, and what the     *)
(* repository holds.                                                       *)
(***************************************************************************)
RepoInputs == {<<>>, <<"example-project">>}

\* output.txt is there when an earlier run has left it
MainTrees ==
    { {<<"a.txt">>},
      {<<"a.txt">>, <<"output.txt">>},
      {<<".repo2promptignore">>, <<"a.txt">>, <<"img.bin">>} }

\* "*.txt"; "**" then "!*.txt"; a rejected exclude line; a rejected '!' line
MainIgnoreTexts ==
    { <<>>,
      <<[kind |-> "text", neg |-> FALSE, segs |-> <<Suffix("txt")>>]>>,
      <<[kind |-> "text", neg |-> FALSE, segs |-> <<GlobStar>>],
        [kind |-> "text", neg |-> TRUE, segs |-> <<Suffix("txt")>>]>>,
      <<[kind |-> "text", neg |-> FALSE, segs |-> <<TooLong>>]>>,
      <<[kind |-> "text", neg |-> TRUE, segs |-> <<TooLong>>]>> }

InitMain ==
    /\ repoPathInput \in RepoInputs
    /\ mpc = "repo"
    /\ configFromFile = EmptyConfig /\ showProgress = FALSE
    /\ outputPath = <<>> /\ outState = "none"
    /\ outFile = NotOpened /\ stdout = <<>>
    /\ tree \in MainTrees
    /\ ignoreText \in (IF <<".repo2promptignore">> \in tree THEN MainIgnoreTexts
                        ELSE {<<>>})
    /\ ignoreFileName = Name("plain", <<".repo2promptignore">>)
    /\ outputFileName = Name("plain", <<"output.txt">>)
    /\ preambleFile = NoPreamble
    /\ rpc = "idle"
    /\ ignorePatterns = <<>> /\ allFiles = <<>> /\ reIncluded = <<>>
    /\ negIdx = 1 /\ nonIgnoredFiles = <<>>
    /\ files = <<>> /\ hasBar = FALSE
    /\ maxSize \in {parseMaxSize(o) : o \in OptMaxSize}
    /\ pc = "idle" /\ idx = 0 /\ sink = <<>>
    /\ pos = 0 /\ pending = <<>>
    /\ bytesWritten = 0 /\ truncated = FALSE
    /\ rsLive = FALSE /\ promise = "none"
    /\ barIncs = 0 /\ barStops = 0
    /\ wrote = <<>> /\ streamOut = <<>> /\ outcome = <<>>
    /\ BinIdle /\ LoadIdle /\ ProcIdle /\ CfgIdle

NextMain ==
    \/ MainRepoFails
    \/ MainRepoOk
    \/ MainLoadConfig
    \/ MainNames
    \/ NextResolve
    \/ MainPreambleUnreadable
    \/ MainLoadPreamble
    \/ MainOpenOutput
    \/ Next
    \/ MainAnnounce
    \/ OpenSucceeds
    \/ OpenFails
    \/ SinkFlush
    \/ ProcessEnds

SpecMain == InitMain /\ [][NextMain]_vars

(***************************************************************************)
(* C1.  streamFileWithLimit copies the first maxSize bytes of the source   *)
(* and the marker when the source is longer than maxSize, and the whole    *)
(* source with no marker otherwise, for every source, every ceiling >= 0   *)
(* and every chunking.                                                     *)
(***************************************************************************)
\* the copy the claim describes, of content under ceiling c
ExpectedCopy(content, c) ==
    IF Len(content) > c
    THEN AsUnits(Take(content, c)) \o <<TruncMarker>>
    ELSE AsUnits(content)

\* C1 as stated: once the promise has resolved, what the writer wrote is the
\* expected copy of the file's bytes.
C1_TruncationExact ==
    (pc = "stream" /\ promise = "resolved" /\ maxSize >= 0)
        => streamOut = ExpectedCopy(Cur.bytes, maxSize)

(***************************************************************************)
(* C6.  Index-to-path correspondence: every separator "----[N]" in the     *)
(* sink is immediately followed by the path that the table of contents     *)
(* lists as entry N, whatever entries failed to stat or read.              *)
(***************************************************************************)
C6_SeparatorMatchesToc ==
    \A j \in 1..Len(sink) :
        sink[j].t = "sep" =>
            /\ j < Len(sink)
            /\ sink[j + 1].t = "path"
            /\ TocEntry(sink[j].n, sink[j + 1].p) \in Range(sink)

\* a section written after an earlier entry was skipped at stat time
C6_Witness ==
    /\ pc = "done"
    /\ \E i, j \in 1..Len(files) :
         i < j /\ outcome[i] = "statFailed" /\ outcome[j] = "written"

(***************************************************************************)
(* C7.  The table of contents is the header, one line "<n>. <path>" per    *)
(* entry of the list with n = 1..len in list order, and a blank line; it   *)
(* is in the sink, right after the preamble, before any entry is           *)
(* processed, and nothing that happens to the entries later changes it.    *)
(***************************************************************************)
TocUnits == {"tocHeader", "tocEntry", "tocBlank"}

C7_TocNumbering ==
    /\ pc = "toc" => sink = <<>> /\ idx = 0
    /\ pc # "toc" =>
         /\ Len(sink) >= Len(files) + 3
         /\ sink[1] = PreambleText
         /\ sink[2] = TocHeader
         /\ \A n \in 1..Len(files) : sink[2 + n] = TocEntry(n, files[n].path)
         /\ sink[Len(files) + 3] = TocBlank
         /\ \A j \in (Len(files) + 4)..Len(sink) : sink[j].t \notin TocUnits

\* the run is over and the second of two entries failed
C7_Witness ==
    /\ pc = "done" /\ Len(files) = 2
    /\ outcome[2] \in {"statFailed", "readFailed"}

(***************************************************************************)
(* C8.  An entry skipped because its stat or its content read failed       *)
(* contributes nothing to the sink.                                        *)
(***************************************************************************)
C8_SkippedWritesNothing ==
    \A i \in 1..Len(files) :
        outcome[i] \in {"statFailed", "readFailed"} => wrote[i] = <<>>

(***************************************************************************)
(* C9.  Per-file failures are never fatal: the loop is never stuck, it     *)
(* leaves only after every entry has been visited, and every entry that    *)
(* did not fail has its complete section in the sink.                      *)
(***************************************************************************)
\* the bytes the writer produces for content under ceiling c >= 0, whatever
\* the chunking
CodeCopy(content, c) ==
    LET d == Utf8Write(content)
        text == d.out \o Utf8End(d.pend)
    IN  IF Len(text) > c
        THEN AsUnits(Take(text, c)) \o <<TruncMarker>>
        ELSE AsUnits(text)

CompleteSection(i) ==
    LET w == wrote[i]
        f == files[i]
    IN  /\ Len(w) >= 3
        /\ w[1] = SepLine(i)
        /\ w[2] = PathLine(f.path)
        /\ IF toLowerCase(extname(f.path)) = "bin"
           THEN w = <<SepLine(i), PathLine(f.path), MetaLine(Size(f))>>
           ELSE /\ w[Len(w)] = Newline
                /\ \A j \in 3..(Len(w) - 1) : w[j].t \in {"byte", "marker"}
                /\ maxSize >= 0 =>
                     SubSeq(w, 3, Len(w) - 1) = CodeCopy(f.bytes, maxSize)

C9_FailuresNotFatal ==
    /\ pc # "done" => ENABLED Next
    /\ pc \in {"end", "done"} =>
         /\ idx = Len(files)
         /\ \A i \in 1..Len(files) : outcome[i] # "pending"
    /\ \A i \in 1..Len(files) :
         /\ i <= idx => outcome[i] # "pending"
         /\ outcome[i] = "written" => CompleteSection(i)

\* a read failure on the first entry, and the second entry written in full
C9_Witness ==
    /\ pc = "done" /\ Len(files) = 2
    /\ outcome[1] = "readFailed" /\ outcome[2] = "written"
    /\ Len(wrote[2]) > 3

(***************************************************************************)
(* What the resolution claims speak of, read off the inputs: the lines of  *)
(* the ignore file as loaded, the tree and the three names.                *)
(***************************************************************************)
LoadedLines == IF IgnoreFileOnDisk THEN ignoreText ELSE <<>>

\* some exclude line matches path
ExcludeHit(path) ==
    \E i \in 1..Len(LoadedLines) :
        /\ LoadedLines[i].kind = "text" /\ ~LoadedLines[i].neg
        /\ Match(LoadedLines[i].segs, path)

\* some '!' line matches path
ReincludeHit(path) ==
    \E i \in 1..Len(LoadedLines) :
        /\ LoadedLines[i].kind = "text" /\ LoadedLines[i].neg
        /\ Match(LoadedLines[i].segs, path)

\* path is the ignore-spec, output or preamble file
Reserved(path) ==
    \E nm \in {ignoreFileName, outputFileName, preambleFile} :
        nm.form # "none" /\ nm.path = path

\* path lies under the root-level .git/ or node_modules/
UnderInfra(path) == Len(path) > 1 /\ path[1] \in {".git", "node_modules"}

\* some string of the list names path
Listed(path) == \E i \in 1..Len(nonIgnoredFiles) : nonIgnoredFiles[i].path = path

(***************************************************************************)
(* C2.  Re-include wins: a file of the tree that matches an exclude        *)
(* pattern and a re-include pattern, and is none of the three reserved     *)
(* files, is in the resolved list.                                         *)
(***************************************************************************)
C2_ReincludeWins ==
    rpc = "resolved" =>
        \A p \in tree :
            (ExcludeHit(p) /\ ReincludeHit(p) /\ ~Reserved(p)) => Listed(p)

\* b.ts, excluded by the broad "**" and re-included by "!b.ts", is listed
C2_Witness ==
    /\ rpc = "resolved"
    /\ \E i, j \in 1..Len(LoadedLines) :
         /\ LoadedLines[i] = [kind |-> "text", neg |-> FALSE, segs |-> <<GlobStar>>]
         /\ LoadedLines[j] = [kind |-> "text", neg |-> TRUE, segs |-> <<Lit("b.ts")>>]
    /\ Listed(<<"b.ts">>)
    /\ ~Listed(<<"a.txt">>)

(***************************************************************************)
(* C3.  A file of the tree that matches no re-include pattern is in the    *)
(* resolved list if and only if it matches no exclude pattern, is not      *)
(* under .git/ or node_modules/, and is none of the three reserved files.  *)
(***************************************************************************)
C3_ExcludeDecides ==
    rpc = "resolved" =>
        \A p \in tree :
            ~ReincludeHit(p) =>
                (Listed(p) <=> (~ExcludeHit(p) /\ ~UnderInfra(p) /\ ~Reserved(p)))

\* with a re-include line present: one file excluded and absent, one file
\* untouched and listed
C3_Witness ==
    /\ rpc = "resolved"
    /\ \E i \in 1..Len(LoadedLines) : LoadedLines[i].kind = "text" /\ LoadedLines[i].neg
    /\ \E p, q \in tree :
         /\ ~ReincludeHit(p) /\ ExcludeHit(p) /\ ~Listed(p) /\ ~Reserved(p)
         /\ ~ReincludeHit(q) /\ ~ExcludeHit(q) /\ Listed(q)

(***************************************************************************)
(* C4.  The resolved list never contains the ignore-spec file, the output  *)
(* file or the preamble file, whatever the patterns and whatever the form  *)
(* the names are configured in.                                            *)
(***************************************************************************)
C4_ReservedNeverListed ==
    rpc = "resolved" => \A p \in tree : Reserved(p) => ~Listed(p)

(***************************************************************************)
(* C5.  No file under .git/ or node_modules/ is ever in the resolved list. *)
(***************************************************************************)
C5_InfraNeverListed ==
    rpc = "resolved" => \A p \in tree : UnderInfra(p) => ~Listed(p)

(***************************************************************************)
(* C10.  isBinaryFile returns true for a name whose extension is .bin in   *)
(* any letter case, without opening the file; otherwise, when the file     *)
(* can be opened and read, true exactly when one of the bytes at offsets   *)
(* 0..511 is 0x00; and false when the open or the read fails.              *)
(***************************************************************************)
HasBinExtension(path) == extname(path) \in {"bin", "BIN", "Bin"}

NulBefore(f, n) == \E i \in 0..(n - 1) : i < Size(f) /\ ByteAt(f, i) = 0

C10_BinaryClassification ==
    binResult # "none" =>
        /\ binResult \in {"true", "false"}
        /\ HasBinExtension(binFile.path) =>
             binResult = "true" /\ binOpened = 0
        /\ (~HasBinExtension(binFile.path) /\ binFile.openOk /\ binFile.readOk) =>
             (binResult = "true" <=> NulBefore(binFile, 512))
        /\ (~HasBinExtension(binFile.path) /\ ~(binFile.openOk /\ binFile.readOk)) =>
             binResult = "false"

\* a text-named file whose first null byte is at offset 512 is not binary
C10_Witness ==
    /\ binResult = "false"
    /\ binFile.path = <<"file.txt">> /\ binFile.openOk /\ binFile.readOk
    /\ binFile.pad = 512 /\ binFile.bytes = <<0>>

(***************************************************************************)
(* C11.  An entry classified as binary gets exactly three lines: the       *)
(* separator, its path and the metadata line with its size; the stream     *)
(* writer is never started for it and none of its bytes is in the sink.    *)
(***************************************************************************)
\* the classification of entry i (the files of this specification hold no
\* null byte, so open and read failures do not change it)
ClassifiedBinary(i) == isBinaryFile(files[i], TRUE, TRUE)

C11_BinarySection ==
    /\ pc = "stream" => ~ClassifiedBinary(idx + 1)
    /\ \A i \in 1..Len(files) :
         ClassifiedBinary(i) =>
             /\ outcome[i] \in {"pending", "statFailed", "written"}
             /\ outcome[i] # "written" => wrote[i] = <<>>
             /\ outcome[i] = "written" =>
                  /\ Len(wrote[i]) = 3
                  /\ wrote[i][1].t = "sep"
                  /\ wrote[i][2] = PathLine(files[i].path)
                  /\ wrote[i][3] = MetaLine(Size(files[i]))
                  /\ \A j \in 1..Len(wrote[i]) : wrote[i][j].t # "byte"

\* a binary entry that has content on disk, written next to a text entry
C11_Witness ==
    /\ pc = "done"
    /\ \E i, j \in 1..Len(files) :
         /\ ClassifiedBinary(i) /\ files[i].bytes # <<>> /\ outcome[i] = "written"
         /\ ~ClassifiedBinary(j) /\ outcome[j] = "written"

(***************************************************************************)
(* C12.  The document in the sink is, in this order: the preamble, the     *)
(* table of contents, the units of the file sections and, once the run is  *)
(* over, the end marker, exactly once and last; for an empty list it is    *)
(* the preamble, the header and blank line of the table, the end marker.   *)
(***************************************************************************)
SectionUnits == {"sep", "path", "meta", "byte", "marker"}

\* how many units of sink equal u
Occurrences(u) == Cardinality({j \in 1..Len(sink) : sink[j] = u})

SepNumbers ==
    LET IsSep(u) == u.t = "sep"
        sel == SelectSeq(sink, IsSep)
    IN  [j \in 1..Len(sel) |-> sel[j].n]

\* C19 as stated: after any run the separators carry 1, 2, ..., k with no
\* gap, k being the number of sections written.
C19_ConsecutiveIndices ==
    pc = "done" => \A j \in 1..Len(SepNumbers) : SepNumbers[j] = j

\* C19 as amended: a section's separator carries its entry's position in
\* the resolved list, which is the number the table of contents gives its
\* path; the numbers written are strictly increasing, and the number of an
\* entry that wrote nothing is missing from them.
C19_IndicesAreListPositions ==
    /\ \A i \in 1..Len(files) :
         wrote[i] # <<>> =>
             /\ wrote[i][1] = SepLine(i)
             /\ \A j \in 2..Len(wrote[i]) : wrote[i][j].t # "sep"
    /\ \A j \in 1..Len(SepNumbers) :
         /\ SepNumbers[j] \in 1..Len(files)
         /\ wrote[SepNumbers[j]] # <<>>
         /\ j > 1 => SepNumbers[j - 1] < SepNumbers[j]
    /\ Len(SepNumbers) = Cardinality({i \in 1..Len(files) : wrote[i] # <<>>})

\* the first entry skipped at stat time, the second written under number 2
C19_Witness ==
    /\ pc = "done" /\ Len(files) = 2
    /\ outcome[1] = "statFailed" /\ outcome[2] = "written"
    /\ SepNumbers = <<2>>

(***************************************************************************)
(* C20.  One entry at a time: while an entry's stream writer is unsettled  *)
(* nothing of a later entry has happened, no read stream outlives its      *)
(* entry, the sections are contiguous in the sink in list order, and a     *)
(* truncation marker comes right after its own file's truncated content.   *)
(***************************************************************************)
RECURSIVE SectionsUpTo(_)
SectionsUpTo(n) == IF n = 0 THEN <<>> ELSE SectionsUpTo(n - 1) \o wrote[n]

\* entry i has not been started
Untouched(i) == wrote[i] = <<>> /\ outcome[i] = "pending"

C20_OneAtATime ==
    /\ pc # "stream" => ~rsLive /\ promise = "none"
    /\ rsLive => promise = "pending"
    /\ pc = "stream" => idx < Len(files) /\ outcome[idx + 1] = "pending"
    /\ \A i \in 1..Len(files) :
         /\ i > idx + 1 => Untouched(i)
         /\ (i = idx + 1 /\ pc # "stream") => Untouched(i)
         /\ i <= idx => outcome[i] # "pending"
    /\ pc # "toc" =>
         \E last \in {<<>>, <<EndMarker>>} :
             sink = <<PreambleText>> \o buildTableOfContents(fileList)
                        \o SectionsUpTo(Len(files)) \o last
    /\ \A i \in 1..Len(files) : \A j \in 1..Len(wrote[i]) :
         wrote[i][j] = TruncMarker =>
             /\ j >= 3
             /\ \A k \in 3..(j - 1) : wrote[i][k].t = "byte"
             /\ maxSize >= 0 => SubSeq(wrote[i], 3, j) = CodeCopy(files[i].bytes, maxSize)
             /\ \/ j = Len(wrote[i])
                \/ j + 1 = Len(wrote[i]) /\ wrote[i][j + 1] = Newline

\* two text entries, the first truncated after one byte, both written
C20_Witness ==
    /\ pc = "done" /\ Len(files) = 2 /\ maxSize = 1
    /\ outcome[1] = "written" /\ outcome[2] = "written"
    /\ Len(files[1].bytes) = 2 /\ TruncMarker \in Range(wrote[1])
    /\ Len(wrote[1]) = 5

(***************************************************************************)
(* C13.  Pattern loading.  The lines of a text are the stretches between   *)
(* its line feeds, a carriage return right before a line feed being part   *)
(* of the line ending; a line's trimmed form runs from its first to its    *)
(* last character that is not white space.                                 *)
(***************************************************************************)
LineFeeds(raw) == {i \in 1..Len(raw) : raw[i] = "LF"}

\* the k-th line of raw
LineOf(raw, k) ==
    LET lf == LineFeeds(raw)
        Before(i) == Cardinality({j \in lf : j < i})
        first == IF k = 1 THEN 1
                 ELSE 1 + CHOOSE i \in lf : Before(i) = k - 2
        ends == {i \in lf : i >= first}
        stop == IF ends = {} THEN Len(raw) + 1
                ELSE CHOOSE i \in ends : \A j \in ends : i <= j
        last == IF stop <= Len(raw) /\ stop - 1 >= first /\ raw[stop - 1] = "CR"
                THEN stop - 2 ELSE stop - 1
    IN  SubSeq(raw, first, last)

TrimmedForm(line) ==
    LET ink == {i \in 1..Len(line) : line[i] \notin Whitespace}
    IN  IF ink = {} THEN <<>>
        ELSE SubSeq(line, CHOOSE i \in ink : \A j \in ink : i <= j,
                          CHOOSE i \in ink : \A j \in ink : i >= j)

\* the trimmed lines that are non-empty and do not start with '#', in order
KeptLines(raw) ==
    LET n == Cardinality(LineFeeds(raw)) + 1
        all == [k \in 1..n |-> TrimmedForm(LineOf(raw, k))]
        Keep(l) == l # <<>> /\ l[1] # "#"
    IN  SelectSeq(all, Keep)

\* of the lines ls: those without '!' in front, and what follows the '!' of
\* the others
Excludes(ls) ==
    LET NoBang(l) == l[1] # "!"
    IN  SelectSeq(ls, NoBang)

Reincludes(ls) ==
    LET Bang(l) == l[1] = "!"
        sel == SelectSeq(ls, Bang)
    IN  [i \in 1..Len(sel) |-> SubSeq(sel[i], 2, Len(sel[i]))]

\* C13 as stated: the two sequences hold exactly the kept trimmed lines.
C13_PatternsAreTrimmedLines ==
    lpc = "loaded" =>
        /\ loadPositive = Excludes(KeptLines(loadText))
        /\ loadNegative = Reincludes(KeptLines(loadText))

\* a kept line as the host stores it: on win32 every '/' is a backslash
HostForm(l) ==
    [i \in 1..Len(l) |-> IF osPlatform = "win32" /\ l[i] = "/" THEN "BS" ELSE l[i]]

HostLines(raw) ==
    LET kept == KeptLines(raw)
    IN  [i \in 1..Len(kept) |-> HostForm(kept[i])]

\* C13 as amended: the two sequences hold the kept trimmed lines in the
\* host's form, '!X' giving X to the re-include sequence only and every
\* other line going to the exclude sequence only, in file order.
C13_PatternsAreHostLines ==
    lpc = "loaded" =>
        /\ loadPositive = Excludes(HostLines(loadText))
        /\ loadNegative = Reincludes(HostLines(loadText))
        /\ Len(loadPositive) + Len(loadNegative) = Len(KeptLines(loadText))

\* "!a", a CRLF line ending, then a comment: one re-include pattern and no
\* exclude pattern
C13_Witness ==
    /\ lpc = "loaded"
    /\ loadText = <<"!", "a", "CR", "LF", "#">>
    /\ loadPositive = <<>> /\ loadNegative = << <<"a">> >>

(***************************************************************************)
(* C14.  A pattern the matcher rejects never aborts the resolution: the    *)
(* glob pass never exits on it, and the resolved list is what the          *)
(* remaining patterns give (a rejected pattern matches nothing).           *)
(***************************************************************************)
C14_MalformedNeverAborts ==
    /\ rpc # "globExit"
    /\ rpc = "resolved" =>
         \A p \in tree :
             /\ (ReincludeHit(p) /\ ~Reserved(p)) => Listed(p)
             /\ ~ReincludeHit(p) =>
                  (Listed(p) <=> (~ExcludeHit(p) /\ ~UnderInfra(p) /\ ~Reserved(p)))

(***************************************************************************)
(* C17.  loadConfig returns the configuration of exactly one source, the   *)
(* first in the order --config file, .repo2prompt.json, the "repo2prompt"  *)
(* object of package.json, {}; it exits without falling through when the   *)
(* --config file or .repo2prompt.json cannot be read or parsed, and a       *)
(* package.json that cannot be read or parsed only yields {}.              *)
(***************************************************************************)
C17_OneSourceByPrecedence ==
    cfgResult.done =>
        LET e == cfgSources.explicit
            r == cfgSources.rc
            k == cfgSources.pkg
            given == e.state # "none"
            rcThere == r.state # "absent"
            pkgObject == k.state = "ok" /\ k.json.kind = "object"
        IN  /\ cfgResult.exit <=>
                 \/ given /\ e.state \in {"unreadable", "malformed"}
                 \/ ~given /\ r.state \in {"unreadable", "malformed"}
            /\ (given /\ e.state = "ok") => cfgResult.config = e.json
            /\ (~given /\ r.state = "ok") => cfgResult.config = r.json
            /\ (~given /\ ~rcThere /\ pkgObject) => cfgResult.config = k.json
            /\ (~given /\ ~rcThere /\ ~pkgObject) =>
                 ~cfgResult.exit /\ cfgResult.config = EmptyConfig

\* no --config, .repo2prompt.json is there and malformed, package.json has
\* the field: the call exits
C17_Witness ==
    /\ cfgResult.done /\ cfgResult.exit
    /\ cfgSources.explicit.state = "none"
    /\ cfgSources.rc.state = "malformed"
    /\ cfgSources.pkg = Source("ok", ConfigA)

(***************************************************************************)
(* C15.  When main stops on a fatal start-up error (the repository path,   *)
(* the configuration, the ignore file, the file list or the preamble), the *)
(* process has exit code 1 and the output file has not been opened: it     *)
(* holds nothing of the document, and nothing was written to its stream.   *)
(***************************************************************************)
StartupExit == mpc = "exit" \/ rpc \in {"exit", "globExit"}

C15_StartupErrorsLeaveNoOutput ==
    StartupExit =>
        /\ exitCode = "1"
        /\ outState = "none"
        /\ outFile = NotOpened
        /\ sink = <<>>

C15_Witness ==
    /\ mpc = "exit"
    /\ exitCode = "1"
    /\ Len(stderr) = 1 /\ stderr[1] = "unable to read preamble"
    /\ Len(nonIgnoredFiles) > 0

(***************************************************************************)
(* C16.  When the output file cannot be opened, main reports "unable to    *)
(* open ... for writing" on stderr before the preamble, the table of       *)
(* contents or any section is processed, and the failure is not an         *)
(* unhandled event of the write stream.                                    *)
(***************************************************************************)
InStderr(msg) == \E i \in 1..Len(stderr) : stderr[i] = msg

C16_OpenFailureReported ==
    outState = "failed" =>
        /\ InStderr("unable to open for writing")
        /\ ~InStderr("Unhandled 'error' event")
        /\ sink = <<>>
        /\ stdout = <<>>

(***************************************************************************)
(* C18.  With a repository path that differs from the working directory,   *)
(* the output file is opened inside the repository, at the output name     *)
(* under the repository path.                                              *)
(***************************************************************************)
C18_OutputInsideRepository ==
    (outState # "none" /\ repoRoot # Cwd) =>
        outputPath = repoRoot \o outputFileName.path

(***************************************************************************)
(* C21.  Within one call of streamFileWithLimit the truncated flag never   *)
(* goes back to false; once it is true nothing more is written for that    *)
(* source; the marker is in the stream's output exactly when the flag is   *)
(* set, and once; and once the promise has settled the call writes nothing *)
(* more to the sink.                                                       *)
(***************************************************************************)
Markers(units) == Cardinality({k \in 1..Len(units) : units[k] = TruncMarker})

C21_TruncationIsFinal ==
    /\ [](pc = "stream" =>
             /\ Markers(streamOut) = (IF truncated THEN 1 ELSE 0)
             /\ truncated => promise = "resolved")
    /\ [](\A i \in 1..Len(wrote) : Markers(wrote[i]) <= 1)
    /\ [][(pc = "stream" /\ truncated) =>
             (truncated' /\ streamOut' = streamOut)]_vars
    /\ [][(pc = "stream" /\ promise \in {"resolved", "rejected"}) =>
             streamOut' = streamOut]_vars

C21_Witness ==
    /\ pc = "stream" /\ truncated /\ promise = "resolved"
    /\ pos < Len(Cur.bytes)
    /\ Len(streamOut) = 2 /\ streamOut[2] = TruncMarker

(***************************************************************************)
(* C22.  The promise of streamFileWithLimit always settles, and the first  *)
(* decisive event fixes its outcome: resolved at the end of the source     *)
(* when nothing was truncated, resolved at the chunk that truncates,       *)
(* rejected when the read error comes first, before or after some chunks   *)
(* were written.  A settled promise does not change, and the stream never  *)
(* falls silent with the promise still pending.                            *)
(***************************************************************************)
C22_PromiseSettles ==
    /\ [](pc = "stream" /\ ~rsLive => promise \in {"resolved", "rejected"})
    /\ [](pc = "stream" /\ promise = "resolved" =>
             \/ truncated /\ Markers(streamOut) = 1
             \/ ~truncated /\ pos = Len(Cur.bytes) /\ pending = <<>>)
    /\ [](pc = "stream" /\ promise = "rejected" => ~truncated)
    /\ [][(pc = "stream" /\ promise = "resolved") => promise' # "rejected"]_vars
    /\ [][(pc = "stream" /\ promise = "rejected") => promise' # "resolved"]_vars
    /\ (promise = "pending") ~> (promise \in {"resolved", "rejected"})

C22_Witness ==
    /\ pc = "stream" /\ promise = "rejected"
    /\ streamOut # <<>> /\ pos < Len(Cur.bytes)

(***************************************************************************)
(* C23.  After a run of writeFilesWithIndex with a progress observer,      *)
(* increment() has been called once for every entry of the list, the       *)
(* entries that failed to stat or to read included.                        *)
(***************************************************************************)
LoopOver == pc \in {"end", "done"}

C23_OneIncrementPerEntry ==
    (hasBar /\ LoopOver) => barIncs = Len(files)

(***************************************************************************)
(* C24.  With a progress observer, stop() is called exactly once, when     *)
(* every entry has been attempted, and no increment() follows it; this     *)
(* holds with skipped entries and for the empty list.  Without an observer *)
(* no progress call is made.                                               *)
(***************************************************************************)
Attempted(i) == outcome[i] # "pending"

C24_StopOnceAfterLoop ==
    /\ [](barStops = (IF hasBar /\ LoopOver THEN 1 ELSE 0))
    /\ [](~hasBar => barIncs = 0 /\ barStops = 0)
    /\ [][barStops' # barStops =>
             /\ idx = Len(files)
             /\ \A i \in 1..Len(files) : Attempted(i)]_vars
    /\ [][barStops = 1 => barIncs' = barIncs]_vars

C24_Witness ==
    /\ hasBar /\ barStops = 1
    /\ Len(files) = 2
    /\ outcome[1] = "readFailed" /\ outcome[2] = "written"
    /\ barIncs = 1

(***************************************************************************)
(* C25.  The resolved list names each path at most once; it holds the      *)
(* paths of the exclude-filtered scan and of the re-include matches, less  *)
(* the strings equal to one of the three names; the paths of the scan come *)
(* first, in scan order, then the paths only the re-include patterns       *)
(* found, by pattern and then by match.  The list is thereby a function of *)
(* the scan results and the names.                                         *)
(***************************************************************************)
FirstIndex(seq, x) == CHOOSE i \in 1..Len(seq) : seq[i] = x /\ \A j \in 1..(i - 1) : seq[j] # x

\* where a string stands in the insertion order of the union
Rank(x) ==
    IF x \in Range(allFiles) THEN FirstIndex(allFiles, x)
    ELSE Len(allFiles) + FirstIndex(reIncluded, x)

RECURSIVE MatchesUpTo(_)
MatchesUpTo(n) ==
    IF n = 0 THEN <<>>
    ELSE MatchesUpTo(n - 1) \o reIncludeMatches(negativePatterns[n])

DeletedNames ==
    {ignoreFileName, outputFileName} \cup
        (IF preambleFile = NoPreamble THEN {} ELSE {preambleFile})

C25_ListIsStableUnion ==
    rpc = "resolved" =>
        /\ Injective([i \in 1..Len(nonIgnoredFiles) |-> nonIgnoredFiles[i].path])
        /\ reIncluded = MatchesUpTo(Len(negativePatterns))
        /\ Range(nonIgnoredFiles) =
               (Range(allFiles) \cup Range(reIncluded)) \ DeletedNames
        /\ \A i, j \in 1..Len(nonIgnoredFiles) :
               i < j => Rank(nonIgnoredFiles[i]) < Rank(nonIgnoredFiles[j])

(***************************************************************************)
(* C26.  When main has returned, the output file is open and holds every   *)
(* unit written to the stream, the end marker last: whoever reads the file *)
(* from then on sees the complete document.                                *)
(***************************************************************************)
C26_CompleteWhenMainResolves ==
    mpc = "finished" =>
        /\ outState = "open"
        /\ outFile.data = sink
        /\ sink # <<>> /\ sink[Len(sink)] = EndMarker

(***************************************************************************)
(* C27.  The path main opens as its output is the path of no entry of the  *)
(* resolved list, whatever the working directory, the repository root and  *)
(* the output name are.                                                    *)
(***************************************************************************)
C27_OutputNeverListed ==
    outState # "none" =>
        \A i \in 1..Len(nonIgnoredFiles) :
            absolutePath(nonIgnoredFiles[i]) # outputPath

(***************************************************************************)
(* C28.  Every separator line written by writeFilesWithIndex starts at the *)
(* beginning of a line of the sink: the unit written before it ends with a *)
(* newline, whatever the entries before it were (text, binary, truncated,  *)
(* skipped, or failing in the middle of the read).                         *)
(***************************************************************************)
\* the unit ends with '\n': every line unit does, a content byte only if it
\* is 0x0A
EndsLine(u) == u.t # "byte" \/ u.n = 10

C28_SeparatorStartsLine ==
    \A k \in 1..Len(sink) :
        sink[k].t = "sep" => (k > 1 /\ EndsLine(sink[k - 1]))

(***************************************************************************)
(* C29.  The ceiling main hands to writeFilesWithIndex is a positive       *)
(* integer whatever --max-size was given as, and the content bytes         *)
(* streamFileWithLimit writes for a file never exceed it.                  *)
(***************************************************************************)
ContentBytes(units) == Cardinality({k \in 1..Len(units) : units[k].t = "byte"})

C29_CeilingPositive ==
    mpc \in {"assemble", "finished", "ended"} =>
        /\ maxSize >= 1
        /\ pc = "stream" => ContentBytes(streamOut) <= maxSize

(***************************************************************************)
(* C30.  When isBinaryFile has returned, every handle it opened has been   *)
(* closed, on every return path.                                           *)
(***************************************************************************)
C30_NoHandleLeftOpen ==
    binResult # "none" => binClosed = binOpened

====
